---- MODULE Spec2Model ----
(***************************************************************************)
(* Production planning engine of the stock planner.                        *)
(*                                                                         *)
(* Number representation.  The tables hold floats with at most one         *)
(* decimal place for day figures; the model stores every day figure        *)
(* as an integer number of TENTHS of a day and every month figure as an    *)
(* integer number of HUNDREDTHS of a month, which makes the .round(1)      *)
(* calls of the code observable.  Quantities and demands are integers.     *)
(* A cell is a record [nan, v]: nan = TRUE is a cell pd.to_numeric         *)
(* coerces to NaN (blank, text, missing).                                  *)
(* Strings that the code splits or strips are sequences of one-character   *)
(* strings.                                                                *)
(***************************************************************************)
EXTENDS Integers, Sequences, FiniteSets, TLC

VARIABLES
    columns,   \* the column names of the master table
    master,    \* the master table: a sequence of rows, each row a function column -> cell
    cfg,       \* the active configuration (the keyword arguments of build_production_plan)
    status,    \* "idle" | "built" | "raised": outcome of the last build on these inputs
    plan,      \* the data frame returned by the last build (empty when none was returned)
    error,     \* the exception raised by the last build (<<>> when none)
    runs,      \* number of builds run on the current table and configuration
    merged,    \* the uploaded stock sheet, before compute_metrics_qty_based
    tables,    \* the outcome of build_report_tables (<<>> when not run)
    final,     \* the decision table handed to fill_qty_in_client_orders
    sheet,     \* the data rows of the "Clinet Orders" sheet of the template
    filled     \* the outcome of fill_qty_in_client_orders (<<>> when not run)

vars == <<columns, master, cfg, status, plan, error, runs,
          merged, tables, final, sheet, filled>>

----------------------------------------------------------------------------
(* Bounds of the model *)

MaxItems == 2

MaxRuns == 2

\* rows of the largest sheet loaded at once (the Top 10 table needs more than ten)
MaxSheet == 12

----------------------------------------------------------------------------
(* Cells *)

Num(x) == [nan |-> FALSE, v |-> x]
NaN == [nan |-> TRUE, v |-> 0]

Str(s) == [nan |-> FALSE, s |-> s]
NaNStr == [nan |-> TRUE, s |-> <<>>]

\* pd.to_numeric(col, errors="coerce").fillna(0.0)
ToNumericFill0(cell) == IF cell.nan THEN 0 ELSE cell.v

Max(a, b) == IF a >= b THEN a ELSE b

----------------------------------------------------------------------------
(* Column names (keyword defaults of build_production_plan and the app) *)

machine_col == "Production Line (Stage1-Stage2-Stage3)"
demand_col == "Monthly Demand"
daily_col == "Daily Demand"
coverage_days_col == "Total Coverage Days"
alert_col == "Product Alert"

\* variant: the builder takes the what-if months as the override column
target_months_input_col_whatif == "Plan Months Input"

\* line 50
target_months_input_col == "Target Months Input"
safety_days_input_col == "Safety Days Input"

\* variant: the coverage column is forgotten in the precondition loop
RequiredCols_short == <<machine_col, demand_col, daily_col>>

RequiredCols == <<machine_col, demand_col, daily_col, coverage_days_col>>

WORKING_DAYS == 26

----------------------------------------------------------------------------
(* Strings *)

Chars == <<" ", "-", "A", "B", "C", "D", "E", "F", "I", "N", "P", "S", "U", "a", "e", "n", "o">>

RECURSIVE IndexOf(_, _, _)
IndexOf(seq, x, i) ==
    IF i > Len(seq) THEN 0
    ELSE IF seq[i] = x THEN i
    ELSE IndexOf(seq, x, i + 1)

\* code-point order of the characters used (Chars is listed in ASCII order)
Ord(c) == IndexOf(Chars, c, 1)

RECURSIVE StrLess(_, _)
StrLess(a, b) ==
    IF b = <<>> THEN FALSE
    ELSE IF a = <<>> THEN TRUE
    ELSE IF Ord(Head(a)) # Ord(Head(b)) THEN Ord(Head(a)) < Ord(Head(b))
    ELSE StrLess(Tail(a), Tail(b))

\* str.split("-"): always at least one token; empty tokens are kept
RECURSIVE Split(_, _)
Split(s, cur) ==
    IF s = <<>> THEN <<cur>>
    ELSE IF Head(s) = "-" THEN <<cur>> \o Split(Tail(s), <<>>)
    ELSE Split(Tail(s), Append(cur, Head(s)))

RECURSIVE LStrip(_)
LStrip(s) == IF s # <<>> /\ Head(s) = " " THEN LStrip(Tail(s)) ELSE s

RECURSIVE RStrip(_)
RStrip(s) ==
    IF s # <<>> /\ s[Len(s)] = " " THEN RStrip(SubSeq(s, 1, Len(s) - 1)) ELSE s

Strip(s) == RStrip(LStrip(s))

\* astype(str) of a machine cell: a missing value prints as "nan"
AsStr(cell) == IF cell.nan THEN <<"n", "a", "n">> ELSE cell.s

UNSPECIFIED == <<"U", "N", "S", "P", "E", "C", "I", "F", "I", "E", "D">>

\* variant: the empty token is not on the list
BlankTokens_noempty == {<<"n", "a", "n">>, <<"N", "o", "n", "e">>}

\* line 72: isin(["nan", "None", ""])
BlankTokens == {<<"n", "a", "n">>, <<"N", "o", "n", "e">>, <<>>}

RECURSIVE Dedup(_, _)
Dedup(seq, seen) ==
    IF seq = <<>> THEN <<>>
    ELSE IF Head(seq) \in seen THEN Dedup(Tail(seq), seen)
    ELSE <<Head(seq)>> \o Dedup(Tail(seq), seen \cup {Head(seq)})

\* variant: a machine named twice in one spec is kept once
MachineTokens_dedup(cell) ==
    LET toks == Split(AsStr(cell), <<>>)
    IN  Dedup([i \in 1..Len(toks) |->
                  IF Strip(toks[i]) \in BlankTokens THEN UNSPECIFIED ELSE Strip(toks[i])], {})

\* lines 68-72: the machine names one master row explodes into
MachineTokens(cell) ==
    LET toks == Split(AsStr(cell), <<>>)
    IN  [i \in 1..Len(toks) |->
            IF Strip(toks[i]) \in BlankTokens THEN UNSPECIFIED ELSE Strip(toks[i])]

----------------------------------------------------------------------------
(* Float arithmetic of the plan math, on scaled integers *)

\* variant: every fraction is rounded up
RoundHalfEven_up(n, d) == (n + d - 1) \div d

\* Series.round(k) on n/d (d even or no exact tie lost): round half to even
RoundHalfEven(n, d) ==
    LET q == n \div d
        r == n % d
    IN  IF 2 * r > d \/ (2 * r = d /\ q % 2 = 1) THEN q + 1 ELSE q

CeilDiv(n, d) == (n + d - 1) \div d

RECURSIVE Pow2(_)
Pow2(k) == IF k <= 0 THEN 1 ELSE 2 * Pow2(k - 1)

\* floor(log2(n / d)) for n, d > 0: the binary exponent of the double nearest n/d
RECURSIVE ExpUp(_, _, _)
ExpUp(n, d, e) == IF n >= d * Pow2(e + 1) THEN ExpUp(n, d, e + 1) ELSE e

RECURSIVE ExpDown(_, _, _)
ExpDown(n, d, e) == IF n * Pow2(-e) < d THEN ExpDown(n, d, e - 1) ELSE e

Exp2(n, d) == IF n >= d THEN ExpUp(n, d, 0) ELSE ExpDown(n, d, -1)

\* 2^k mod 10 for k >= 1
Pow2Mod10(k) == <<2, 4, 8, 6>>[((k - 1) % 4) + 1]

\* 10 * m - g * 2^k, where m * 2^-k is the double nearest to g / 10:
\* the signed error of storing g tenths in a float, in units of 2^-k / 10
TenthError(g) ==
    LET k == 52 - Exp2(g, 10)
        md == ((g % 10) * Pow2Mod10(k)) % 10
    IN  IF md <= 5 THEN 0 - md ELSE 10 - md

\* TRUE iff the double product float(g/10) * d lies above the exact product
\* g*d/10 when that product is an integer N: the stored error d * TenthError(g)
\* exceeds half a unit in the last place of N
ProductRoundsAbove(g, d) ==
    LET e == Exp2(g, 10)
        eN == Exp2((g * d) \div 10, 1)
    IN  d * TenthError(g) * Pow2(e + 1) > 10 * Pow2(eN) * Pow2(0 - (e + 1))

\* line 113: int(math.ceil(max(0.0, gap * daily))), gap in tenths, daily an integer
ProposedQty(gap, daily) ==
    IF gap <= 0 \/ daily <= 0 THEN 0
    ELSE IF (gap * daily) % 10 # 0 THEN CeilDiv(gap * daily, 10)
    ELSE IF ProductRoundsAbove(gap, daily) THEN (gap * daily) \div 10 + 1
    ELSE (gap * daily) \div 10

\* variant: rounds down to a multiple of the batch
BatchRound_floor(q, b) == IF q > 0 THEN (q \div b) * b ELSE 0

\* variant: always moves on to the next multiple, also from zero
BatchRound_next(q, b) == ((q \div b) + 1) * b

\* line 118: int(math.ceil(q / b) * b) if q > 0 else 0
BatchRound(q, b) == IF q > 0 THEN CeilDiv(q, b) * b ELSE 0

----------------------------------------------------------------------------
(* Sorting of the demand values *)

RECURSIVE InsertInt(_, _)
InsertInt(sorted, x) ==
    IF sorted = <<>> THEN <<x>>
    ELSE IF x < Head(sorted) THEN <<x>> \o sorted
    ELSE <<Head(sorted)>> \o InsertInt(Tail(sorted), x)

RECURSIVE SortInts(_)
SortInts(seq) ==
    IF seq = <<>> THEN <<>>
    ELSE InsertInt(SortInts(SubSeq(seq, 1, Len(seq) - 1)), seq[Len(seq)])

\* variant: the zero demands take part in the cut points
SelectSeqPos_nonneg(seq) == SelectSeq(seq, LAMBDA x : x >= 0)

\* line 12: s[s > 0]
RECURSIVE SelectSeqPos(_)
SelectSeqPos(seq) ==
    IF seq = <<>> THEN <<>>
    ELSE IF Head(seq) > 0 THEN <<Head(seq)>> \o SelectSeqPos(Tail(seq))
    ELSE SelectSeqPos(Tail(seq))

----------------------------------------------------------------------------
(* Demand classifier *)

\* Series.quantile(q), linear interpolation, times 100: xs sorted ascending and
\* non-empty, q100 = 100 q.  Position (n-1) q between xs[lo] and xs[lo+1].
Quantile100(xs, q100) ==
    LET h == (Len(xs) - 1) * q100
        lo == (h \div 100) + 1
        fr == h % 100
    IN  IF fr = 0 THEN 100 * xs[lo]
        ELSE 100 * xs[lo] + fr * (xs[lo + 1] - xs[lo])

\* variant: a demand on a cut point falls into the lower class
cls_strict(v, nz) ==
    IF 100 * v > Quantile100(nz, 90) THEN "VERY_HIGH"
    ELSE IF 100 * v > Quantile100(nz, 70) THEN "HIGH"
    ELSE IF 100 * v > Quantile100(nz, 40) THEN "MEDIUM"
    ELSE IF 100 * v > Quantile100(nz, 15) THEN "LOW"
    ELSE "VERY_LOW"

\* lines 21-31: cls(v) against the cut points of the positive values nz
cls(v, nz) ==
    IF 100 * v >= Quantile100(nz, 90) THEN "VERY_HIGH"
    ELSE IF 100 * v >= Quantile100(nz, 70) THEN "HIGH"
    ELSE IF 100 * v >= Quantile100(nz, 40) THEN "MEDIUM"
    ELSE IF 100 * v >= Quantile100(nz, 15) THEN "LOW"
    ELSE "VERY_LOW"

\* lines 6-33: monthly_demand is the sequence of demand cells of the rows given
classify_by_percentiles(monthly_demand) ==
    LET s == [i \in 1..Len(monthly_demand) |-> ToNumericFill0(monthly_demand[i])]
        nz == SortInts(SelectSeqPos(s))
    IN  IF Len(nz) = 0 THEN [i \in 1..Len(s) |-> "VERY_LOW"]
        ELSE [i \in 1..Len(s) |-> cls(s[i], nz)]

----------------------------------------------------------------------------
(* Production plan builder *)

\* variant: a key without entry maps to 0, the fallback is lost
MapGet_nofallback(m, k, dflt) == IF k \in DOMAIN m THEN m[k] ELSE 0

\* dict.get / Series.map(dict).fillna(dflt)
MapGet(m, k, dflt) == IF k \in DOMAIN m THEN m[k] ELSE dflt

priority_map == [RED |-> 0, ORANGE |-> 1, YELLOW |-> 2, GREEN |-> 3]

\* variant: an alert outside the map sorts before RED
AlertPriority_first(alert) == MapGet(priority_map, alert, -1)

\* line 122: df.get(alert_col, "").map(priority_map).fillna(9).astype(int)
AlertPriority(alert) == MapGet(priority_map, alert, 9)

\* lines 55-57: the first required column missing from the table, "" if none
RECURSIVE FirstMissing(_, _)
FirstMissing(cols, i) ==
    IF i > Len(RequiredCols) THEN ""
    ELSE IF RequiredCols[i] \notin cols THEN RequiredCols[i]
    ELSE FirstMissing(cols, i + 1)

\* lines 68-72: one row per machine token, in table order; idx is the index
\* label the exploded row keeps, src the cells of the master row
RECURSIVE Explode(_, _)
Explode(mst, i) ==
    IF i > Len(mst) THEN <<>>
    ELSE LET toks == MachineTokens(mst[i][machine_col])
         IN  [j \in 1..Len(toks) |-> [idx |-> i, src |-> mst[i], Machine |-> toks[j]]]
                 \o Explode(mst, i + 1)

\* lines 83-85: tm_in.notna() & (tm_in > 0)
TargetMask(cell) == ~cell.nan /\ cell.v > 0

\* lines 90-92: sd_in.notna() & (sd_in >= 0)
SafetyMask(cell) == ~cell.nan /\ cell.v >= 0

\* lines 85, 92: df.loc[mask, col] = series aligns the series on the selected
\* index labels; with repeated labels (an item exploded into several rows) and
\* a mask selecting some but not all rows the reindex raises
AlignRaises(rows, mask) ==
    /\ \E i, j \in 1..Len(rows) : i # j /\ rows[i].idx = rows[j].idx
    /\ \E i \in 1..Len(rows) : mask[i]
    /\ \E i \in 1..Len(rows) : ~mask[i]

\* line 101: (Target Months (Final) * working_days).round(1), months in
\* hundredths, result in tenths of a day
TargetCoverageDays(tmFinal) == RoundHalfEven(tmFinal * WORKING_DAYS, 10)

\* variant: the minimum batch days are not applied
PlanCoverageDays_nofloor(targetCov, sdFinal, min_months) == targetCov + sdFinal

\* lines 102-107: target coverage plus safety days, raised to the minimum
\* batch days of the class (min_months whole months)
PlanCoverageDays(targetCov, sdFinal, min_months) ==
    Max(targetCov + sdFinal, 10 * min_months * WORKING_DAYS)

\* variant: the difference is not clipped at zero
GapDays_noclip(planCov, current_cov) == planCov - current_cov

\* line 110: (Plan Coverage Days - current_cov).clip(lower=0).round(1)
GapDays(planCov, current_cov) == Max(planCov - current_cov, 0)

\* lines 116-118: batch rounding when batch_round_to is set and positive
ProposedProductionQty(qty, batch_round_to) ==
    IF batch_round_to > 0 THEN BatchRound(qty, batch_round_to) ELSE qty

\* lines 78-124 for one exploded row r of demand class dc
PlanMath(cols, r, dc, c) ==
    LET tmAuto == 100 * MapGet(c.target_months_map, dc, 6)
        sdAuto == 10 * MapGet(c.safety_days_map, dc, 5)
        tmFinal == IF target_months_input_col \in cols
                      /\ TargetMask(r.src[target_months_input_col])
                   THEN r.src[target_months_input_col].v ELSE tmAuto
        sdFinal == IF safety_days_input_col \in cols
                      /\ SafetyMask(r.src[safety_days_input_col])
                   THEN r.src[safety_days_input_col].v ELSE sdAuto
        current_cov == ToNumericFill0(r.src[coverage_days_col])
        daily == ToNumericFill0(r.src[daily_col])
        monthly == ToNumericFill0(r.src[demand_col])
        targetCov == TargetCoverageDays(tmFinal)
        planCov == PlanCoverageDays(targetCov, sdFinal,
                                    MapGet(c.min_batch_months_map, dc, 0))
        gap == GapDays(planCov, current_cov)
    IN  [idx |-> r.idx, src |-> r.src, Machine |-> r.Machine,
         DemandClass |-> dc,
         TargetMonthsAuto |-> tmAuto, SafetyDaysAuto |-> sdAuto,
         TargetMonthsFinal |-> tmFinal, SafetyDaysFinal |-> sdFinal,
         TargetCoverageDays |-> targetCov, PlanCoverageDays |-> planCov,
         GapDays |-> gap,
         ProposedProductionQty |->
             ProposedProductionQty(ProposedQty(gap, daily), c.batch_round_to),
         AlertPriority |-> AlertPriority(r.src[alert_col]),
         MonthlyDemandNum |-> monthly]

\* variant: gap days sorted ascending like the alert priority
SortsBefore_gapAsc(a, b) ==
    IF a.Machine # b.Machine THEN StrLess(a.Machine, b.Machine)
    ELSE IF a.AlertPriority # b.AlertPriority THEN a.AlertPriority < b.AlertPriority
    ELSE IF a.GapDays # b.GapDays THEN a.GapDays < b.GapDays
    ELSE IF a.ProposedProductionQty # b.ProposedProductionQty
         THEN a.ProposedProductionQty > b.ProposedProductionQty
    ELSE a.MonthlyDemandNum > b.MonthlyDemandNum

\* lines 126-129: the sort order, a strict order on plan rows
SortsBefore(a, b) ==
    IF a.Machine # b.Machine THEN StrLess(a.Machine, b.Machine)
    ELSE IF a.AlertPriority # b.AlertPriority THEN a.AlertPriority < b.AlertPriority
    ELSE IF a.GapDays # b.GapDays THEN a.GapDays > b.GapDays
    ELSE IF a.ProposedProductionQty # b.ProposedProductionQty
         THEN a.ProposedProductionQty > b.ProposedProductionQty
    ELSE a.MonthlyDemandNum > b.MonthlyDemandNum

\* sort_values on several keys is stable: rows with equal keys keep their order
RECURSIVE InsertRow(_, _)
InsertRow(sorted, x) ==
    IF sorted = <<>> THEN <<x>>
    ELSE IF SortsBefore(x, Head(sorted)) THEN <<x>> \o sorted
    ELSE <<Head(sorted)>> \o InsertRow(Tail(sorted), x)

RECURSIVE sort_values(_)
sort_values(rows) ==
    IF rows = <<>> THEN <<>>
    ELSE InsertRow(sort_values(SubSeq(rows, 1, Len(rows) - 1)), rows[Len(rows)])

\* variant: a competition rank, rows with equal keys share a rank
cumcount_ties(rows, i) ==
    1 + Cardinality({j \in 1..Len(rows) :
                        /\ rows[j].Machine = rows[i].Machine
                        /\ (\/ rows[j].AlertPriority < rows[i].AlertPriority
                            \/ /\ rows[j].AlertPriority = rows[i].AlertPriority
                               /\ rows[j].GapDays > rows[i].GapDays)})

\* line 131: groupby("Machine").cumcount() + 1
cumcount(rows, i) == Cardinality({j \in 1..i : rows[j].Machine = rows[i].Machine})

\* lines 131-138: the rank is added and the helper columns are dropped from the
\* returned frame (the modelled sheets carry no Item No. column to convert)
Finish(rows) ==
    [i \in 1..Len(rows) |->
        [idx |-> rows[i].idx, src |-> rows[i].src, Machine |-> rows[i].Machine,
         DemandClass |-> rows[i].DemandClass,
         TargetMonthsAuto |-> rows[i].TargetMonthsAuto,
         SafetyDaysAuto |-> rows[i].SafetyDaysAuto,
         TargetMonthsFinal |-> rows[i].TargetMonthsFinal,
         SafetyDaysFinal |-> rows[i].SafetyDaysFinal,
         TargetCoverageDays |-> rows[i].TargetCoverageDays,
         PlanCoverageDays |-> rows[i].PlanCoverageDays,
         GapDays |-> rows[i].GapDays,
         ProposedProductionQty |-> rows[i].ProposedProductionQty,
         ProductionRank |-> cumcount(rows, i)]]

Raised(exc) == [status |-> "raised", plan |-> <<>>, error |-> exc]

KeyError(col) == Raised(<<"KeyError", col>>)

\* lines 36-138: the outcome of build_production_plan(master, ...) on a table
\* with columns cols and rows mst under configuration c.  Reading a column the
\* table does not have raises KeyError at the line that reads it.
build_production_plan(cols, mst, c) ==
    IF FirstMissing(cols, 1) # ""
    THEN Raised(<<"ValueError", "Missing required column: ", FirstMissing(cols, 1)>>)
    ELSE IF machine_col \notin cols THEN KeyError(machine_col)
    ELSE IF demand_col \notin cols THEN KeyError(demand_col)
    ELSE
    LET rows == Explode(mst, 1)
        classes == classify_by_percentiles([i \in 1..Len(rows) |-> rows[i].src[demand_col]])
    IN  IF (target_months_input_col \in cols
               /\ AlignRaises(rows, [i \in 1..Len(rows) |->
                                       TargetMask(rows[i].src[target_months_input_col])]))
           \/ (safety_days_input_col \in cols
               /\ AlignRaises(rows, [i \in 1..Len(rows) |->
                                       SafetyMask(rows[i].src[safety_days_input_col])]))
        THEN Raised(<<"ValueError", "cannot reindex on an axis with duplicate labels">>)
        ELSE IF coverage_days_col \notin cols THEN KeyError(coverage_days_col)
        ELSE IF daily_col \notin cols THEN KeyError(daily_col)
        ELSE IF alert_col \notin cols
        THEN Raised(<<"AttributeError", "'str' object has no attribute 'map'">>)
        ELSE [status |-> "built",
              plan |-> Finish(sort_values(
                         [i \in 1..Len(rows) |-> PlanMath(cols, rows[i], classes[i], c)])),
              error |-> <<>>]

----------------------------------------------------------------------------
(* Configuration *)

\* src/config.py PLAN_DEFAULTS: whole months and whole days, as the sidebar
\* enters them; PlanMath converts to hundredths of a month and tenths of a day
PLAN_DEFAULTS ==
    [target_months_map |->
         [VERY_HIGH |-> 3, HIGH |-> 4, MEDIUM |-> 6, LOW |-> 9, VERY_LOW |-> 12],
     safety_days_map |->
         [VERY_HIGH |-> 14, HIGH |-> 10, MEDIUM |-> 7, LOW |-> 5, VERY_LOW |-> 3],
     min_batch_months_map |-> [LOW |-> 4, VERY_LOW |-> 6],
     batch_round_to |-> 1000]

\* the sidebar: the batch size (0 = off)
Configs == {[PLAN_DEFAULTS EXCEPT !.batch_round_to = b] : b \in {0, 100, 1000}}

----------------------------------------------------------------------------
(* Tables *)

BaseCols == {machine_col, demand_col, daily_col, coverage_days_col, alert_col}

Item(m, dem, dly, cov, al) ==
    (machine_col :> m) @@ (demand_col :> dem) @@ (daily_col :> dly)
        @@ (coverage_days_col :> cov) @@ (alert_col :> al)

\* rows that vary the figures of the plan math, on one machine
Items ==
    {Item(Str(<<"A">>), dem, dly, cov, "RED") :
        dem \in {NaN, Num(1300), Num(2600)},
        dly \in {NaN, Num(50), Num(100)},
        cov \in {NaN, Num(909), Num(4000)}}

----------------------------------------------------------------------------
(* Operations *)

InitWith(colsets) ==
    /\ columns \in colsets
    /\ master = <<>>
    /\ cfg = PLAN_DEFAULTS
    /\ status = "idle"
    /\ plan = <<>>
    /\ error = <<>>
    /\ runs = 0
    /\ merged = <<>>
    /\ tables = <<>>
    /\ final = <<>>
    /\ sheet = <<>>
    /\ filled = <<>>

\* a row of the uploaded sheet is read: the cells of the columns the sheet has
AddItem(it) ==
    /\ Len(master) < MaxItems
    /\ master' = Append(master, [c \in columns |-> it[c]])
    /\ status' = "idle"
    /\ plan' = <<>>
    /\ error' = <<>>
    /\ runs' = 0
    /\ tables' = <<>>
    /\ UNCHANGED <<columns, cfg, merged, final, sheet, filled>>

\* a sidebar setting is changed
SetConfig(c) ==
    /\ c # cfg
    /\ cfg' = c
    /\ status' = "idle"
    /\ plan' = <<>>
    /\ error' = <<>>
    /\ runs' = 0
    /\ tables' = <<>>
    /\ UNCHANGED <<columns, master, merged, final, sheet, filled>>

\* variant: the exploded rows are left in the caller's table
MasterAfterBuild_exploded(mst) ==
    LET rows == Explode(mst, 1)
    IN  [i \in 1..Len(rows) |-> rows[i].src]

\* line 53: the builder works on a copy, the caller's table is not touched
MasterAfterBuild(mst) == mst

Build ==
    /\ LET res == build_production_plan(columns, master, cfg)
       IN  /\ status' = res.status
           /\ plan' = res.plan
           /\ error' = res.error
    /\ master' = MasterAfterBuild(master)
    /\ runs' = runs + 1
    /\ UNCHANGED <<columns, cfg, merged, tables, final, sheet, filled>>

\* the Machine Plan tab is rendered: build_production_plan(master, ...)
BuildPlan == runs = 0 /\ Build

\* a later tab of the same script run builds the plan again from the same
\* table and settings (app.py lines 295 and 333)
Rerun == runs >= 1 /\ runs < MaxRuns /\ Build

Init == InitWith({BaseCols})

Next ==
    \/ \E it \in Items : AddItem(it)
    \/ \E c \in Configs : SetConfig(c)
    \/ BuildPlan

Spec == Init /\ [][Next]_vars

----------------------------------------------------------------------------
(* Ranking: rows that vary every sort key, on one or two machines *)

ItemsRank ==
    {Item(Str(m), dem, dly, cov, al) :
        m \in {<<"A">>, <<"A", "-", "B">>},
        dem \in {Num(1300), Num(2600)},
        dly \in {NaN, Num(50)},
        cov \in {Num(909), Num(4000)},
        al \in {"RED", "ORANGE", ""}}

ConfigsRank == {PLAN_DEFAULTS, [PLAN_DEFAULTS EXCEPT !.batch_round_to = 0]}

NextRank ==
    \/ \E it \in ItemsRank : AddItem(it)
    \/ \E c \in ConfigsRank : SetConfig(c)
    \/ BuildPlan

SpecRank == Init /\ [][NextRank]_vars

----------------------------------------------------------------------------
(* Explosion: rows that vary the machine spec; the plan is built repeatedly *)

ItemsExplode ==
    {Item(m, dem, Num(50), cov, "RED") :
        m \in {Str(<<"A">>), Str(<<"A", "-", "A">>), Str(<<"A", "-", "B">>),
               Str(<<"A", "-", "B", "-", "C">>), Str(<<>>), NaNStr},
        dem \in {Num(1300), Num(2600)},
        cov \in {NaN}}

NextExplode ==
    \/ \E it \in ItemsExplode : AddItem(it)
    \/ \E c \in ConfigsRank : SetConfig(c)
    \/ BuildPlan
    \/ Rerun

SpecExplode == Init /\ [][NextExplode]_vars

----------------------------------------------------------------------------
(* Sheets that lack columns *)

ColumnSets ==
    {BaseCols} \cup {BaseCols \ {c} : c \in BaseCols}
        \cup {BaseCols \ {machine_col, coverage_days_col},
              BaseCols \ {demand_col, daily_col}}

ItemsCols ==
    {Item(Str(m), dem, Num(50), cov, "RED") :
        m \in {<<"A">>, <<"A", "-", "B">>},
        dem \in {NaN, Num(1300)},
        cov \in {NaN, Num(4000)}}

InitCols == InitWith(ColumnSets)

NextCols ==
    \/ \E it \in ItemsCols : AddItem(it)
    \/ \E c \in ConfigsRank : SetConfig(c)
    \/ BuildPlan

SpecCols == InitCols /\ [][NextCols]_vars

----------------------------------------------------------------------------
(* Sheets with the optional override columns *)

OverrideCols == BaseCols \cup {target_months_input_col, safety_days_input_col}

\* Target Months Input in hundredths of a month, Safety Days Input in tenths
ItemsOverride ==
    {Item(Str(<<"A">>), dem, Num(50), NaN, "RED")
         @@ (target_months_input_col :> tm) @@ (safety_days_input_col :> sd) :
        dem \in {NaN, Num(1300), Num(2600)},
        tm \in {NaN, Num(0), Num(133)},
        sd \in {NaN, Num(0), Num(25)}}

InitOverride == InitWith({OverrideCols})

\* the sidebar: the minimum batch months of the slowest class
ConfigsOverride ==
    {[PLAN_DEFAULTS EXCEPT !.min_batch_months_map = mb] :
        mb \in {[LOW |-> 4, VERY_LOW |-> 6], [LOW |-> 4, VERY_LOW |-> 24]}}

NextOverride ==
    \/ \E it \in ItemsOverride : AddItem(it)
    \/ \E c \in ConfigsOverride : SetConfig(c)
    \/ BuildPlan

SpecOverride == InitOverride /\ [][NextOverride]_vars

----------------------------------------------------------------------------
(* Item numbers *)

itemno_col == "Item No."

Digits == <<"0", "1", "2", "3", "4", "5", "6", "7", "8", "9">>

\* ch.isdigit()
IsDigit(ch) == \E i \in 1..Len(Digits) : Digits[i] = ch

\* the decimal numeral of n >= 0 as a string
RECURSIVE Dec(_)
Dec(n) == IF n < 10 THEN <<Digits[n + 1]>> ELSE Dec(n \div 10) \o <<Digits[(n % 10) + 1]>>

\* "".join(ch for ch in s if ch.isdigit())
RECURSIVE KeepDigits(_)
KeepDigits(str) ==
    IF str = <<>> THEN <<>>
    ELSE IF IsDigit(Head(str)) THEN <<Head(str)>> \o KeepDigits(Tail(str))
    ELSE KeepDigits(Tail(str))

\* str.lstrip("0")
RECURSIVE LStripZeros(_)
LStripZeros(str) ==
    IF str # <<>> /\ Head(str) = "0" THEN LStripZeros(Tail(str)) ELSE str

\* src/src/alerts.py lines 56-65; a NaN cell gives ""
digits_only(cell) == IF cell.nan THEN <<>> ELSE LStripZeros(KeepDigits(cell.s))

\* src/io.py lines 15-21: strip, drop a trailing ".0", keep the digits
io_digits_only(cell) ==
    IF cell.nan THEN <<>>
    ELSE LET t == Strip(cell.s)
             u == IF Len(t) >= 2 /\ SubSeq(t, Len(t) - 1, Len(t)) = <<".", "0">>
                  THEN SubSeq(t, 1, Len(t) - 2) ELSE t
         IN  KeepDigits(u)

\* str.zfill(n)
RECURSIVE ZFill(_, _)
ZFill(str, n) == IF Len(str) >= n THEN str ELSE ZFill(<<"0">> \o str, n)

\* src/io.py lines 23-27, pad_len = 11
format_item_no(cell) ==
    LET d == io_digits_only(cell)
    IN  IF d = <<>> THEN Str(<<>>) ELSE Str(ZFill(d, 11))

\* src/src/alerts.py lines 11-53
CUST_ALERT_EXCLUDE_ITEMNOS ==
    {Dec(n) : n \in
        {1002010105, 1002010107, 1002010301, 1002010302, 1002010303,
         1002010304, 1002010305, 1002010308, 1002010401, 1002010405,
         1002010410, 1002010411, 1002010412, 1002010413, 1002010414,
         1002020101, 1002080101, 1002080102, 1002080103, 1002080104,
         1002080201, 1002080202, 1002080203, 1002080204, 1002080302,
         1002080303, 1002080304, 1002080401, 1002080402, 1002080501,
         1002080502, 1002080601, 1002080701, 1002080801, 1002080901,
         1002090101, 1002080301, 1002100102, 1001060606, 1001060607,
         1001090305}}

----------------------------------------------------------------------------
(* Metrics, planning columns and alerts: the pipeline of app.py lines 101-138 *)
(* The uploaded sheet holds day figures with two decimals, stored as        *)
(* HUNDREDTHS of a day; the master table holds them rounded, in tenths.     *)

raw_monthly_demand_col == "Min Stock / M.D."
mpi_days_col == "MPI Stock days"
cust_days_col == "CUST Stock Days"
cust_alert_col == "CUST Alert"
plan_qty_input_col == "Plan Qty Input"
plan_months_input_col == "Plan Months Input"
months_covered_col == "Months Covered by Plan Qty"
qty_needed_col == "Qty Needed for Plan Months"
end_date_col == "End Date"

\* variant: a cell that does not parse stays NaN
DaysRound1_nofill(cell) == IF cell.nan THEN NaN ELSE Num(RoundHalfEven(cell.v, 10))

\* pd.to_numeric(col, errors="coerce").fillna(0).round(1): hundredths to tenths
DaysRound1(cell) == Num(RoundHalfEven(ToNumericFill0(cell), 10))

\* float addition and division: NaN if an operand is NaN
AddCells(a, b) == IF a.nan \/ b.nan THEN NaN ELSE Num(a.v + b.v)

\* src/metrics.py lines 15-34 for one row; the quantity columns and the
\* coverage in months, which no later stage reads, are left out
compute_metrics_qty_based(row) ==
    LET monthly == ToNumericFill0(row[raw_monthly_demand_col])
        mpi == DaysRound1(row[mpi_days_col])
        cust == DaysRound1(row[cust_days_col])
    IN  (demand_col :> Num(monthly))
            @@ (daily_col :> Num(RoundHalfEven(monthly, WORKING_DAYS)))
            @@ (mpi_days_col :> mpi)
            @@ (cust_days_col :> cust)
            @@ (coverage_days_col :> AddCells(mpi, cust))
            @@ row

\* the float a division by zero of a positive number gives
Inf == [nan |-> FALSE, inf |-> TRUE, v |-> 0]

\* src/planning.py line 13: (to_numeric(qty) / monthly).round(1) for qty >= 0,
\* in tenths of a month; x/0 is inf, 0/0 and NaN/x are NaN
QtyPerMonth(qty, monthly) ==
    IF qty.nan THEN NaN
    ELSE IF monthly = 0 THEN (IF qty.v = 0 THEN NaN ELSE Inf)
    ELSE Num(RoundHalfEven(10 * qty.v, monthly))

\* variant: infinities and NaN stay in the column
MonthsCovered_noreplace(qty, monthly) == QtyPerMonth(qty, monthly)

\* src/planning.py lines 13-14: .replace([inf, -inf], nan).fillna(0)
MonthsCovered(qty, monthly) ==
    LET x == QtyPerMonth(qty, monthly)
    IN  IF x = Inf \/ x.nan THEN Num(0) ELSE x

\* src/planning.py lines 16-17: (months * monthly).round(0), NaN replaced by 0;
\* months in hundredths
QtyNeeded(months, monthly) ==
    IF months.nan THEN 0 ELSE RoundHalfEven(months.v * monthly, 100)

\* src/planning.py lines 5-25 for one row; dates are days counted from the
\* start date
add_planning_columns(row) ==
    LET qty == IF plan_qty_input_col \in DOMAIN row THEN row[plan_qty_input_col] ELSE NaN
        months == IF plan_months_input_col \in DOMAIN row
                  THEN row[plan_months_input_col] ELSE NaN
        monthly == row[demand_col].v
    IN  (plan_qty_input_col :> qty)
            @@ (plan_months_input_col :> months)
            @@ (months_covered_col :> MonthsCovered(qty, monthly))
            @@ (qty_needed_col :> Num(QtyNeeded(months, monthly)))
            @@ (end_date_col :> Num(RoundHalfEven(ToNumericFill0(row[coverage_days_col]), 10)))
            @@ row

\* variant: a value on a threshold falls into the worse tier
product_alert_closed(days) ==
    IF days.nan THEN ""
    ELSE IF days.v <= 70 THEN "RED"
    ELSE IF days.v <= 210 THEN "ORANGE"
    ELSE IF days.v <= 600 THEN "YELLOW"
    ELSE "GREEN"

\* src/src/alerts.py lines 68-77, days in tenths
product_alert(days) ==
    IF days.nan THEN ""
    ELSE IF days.v < 70 THEN "RED"
    ELSE IF days.v < 210 THEN "ORANGE"
    ELSE IF days.v < 600 THEN "YELLOW"
    ELSE "GREEN"

\* src/src/alerts.py lines 80-89, days in tenths
cust_alert(days) ==
    IF days.nan THEN ""
    ELSE IF days.v < 50 THEN "RED"
    ELSE IF days.v < 100 THEN "ORANGE"
    ELSE IF days.v < 200 THEN "YELLOW"
    ELSE "GREEN"

\* variant: the exclusion list is matched on the item number as written
mask_excluded_raw(row) ==
    /\ itemno_col \in DOMAIN row
    /\ ~row[itemno_col].nan
    /\ row[itemno_col].s \in CUST_ALERT_EXCLUDE_ITEMNOS

\* src/src/alerts.py lines 108-110
mask_excluded(row) ==
    /\ itemno_col \in DOMAIN row
    /\ digits_only(row[itemno_col]) \in CUST_ALERT_EXCLUDE_ITEMNOS

\* src/src/alerts.py lines 92-113 for one row
add_alerts(row) ==
    (alert_col :> product_alert(row[coverage_days_col]))
        @@ (cust_alert_col :> IF mask_excluded(row) THEN ""
                              ELSE cust_alert(row[cust_days_col]))
        @@ row

\* app.py lines 114-138
PipelineRow(row) == add_alerts(add_planning_columns(compute_metrics_qty_based(row)))

RawCols == {itemno_col, machine_col, raw_monthly_demand_col, mpi_days_col, cust_days_col}

RawItem(no, m, dem, mpi, cust) ==
    (itemno_col :> no) @@ (machine_col :> m) @@ (raw_monthly_demand_col :> dem)
        @@ (mpi_days_col :> mpi) @@ (cust_days_col :> cust)

\* a row of the stock sheet is uploaded; app.py line 101 formats its item number
Upload(raw) ==
    /\ Len(merged) < MaxItems
    /\ merged' = Append(merged, [raw EXCEPT ![itemno_col] = format_item_no(raw[itemno_col])])
    /\ master' = <<>>
    /\ columns' = {}
    /\ status' = "idle"
    /\ plan' = <<>>
    /\ error' = <<>>
    /\ runs' = 0
    /\ tables' = <<>>
    /\ UNCHANGED <<cfg, final, sheet, filled>>

\* the script computes the master table from the uploaded rows
Pipeline ==
    /\ merged # <<>>
    /\ master = <<>>
    /\ master' = [i \in 1..Len(merged) |-> PipelineRow(merged[i])]
    /\ columns' = DOMAIN PipelineRow(merged[1])
    /\ status' = "idle"
    /\ plan' = <<>>
    /\ error' = <<>>
    /\ runs' = 0
    /\ UNCHANGED <<cfg, merged, tables, final, sheet, filled>>

InitPipeline == InitWith({{}})

\* item numbers as the stock sheet writes them
ItemNo_excluded == Str(Dec(1002010105) \o <<".", "0">>)
ItemNo_other == Str(Dec(1002010106))

\* rows whose coverage figures lie on and just under every alert threshold
ItemsAlerts ==
    {RawItem(no, Str(<<"A">>), Num(1300), mpi, cust) :
        no \in {ItemNo_excluded, ItemNo_other},
        mpi \in {Num(200), Num(1100), Num(4000)},
        cust \in {NaN, Num(490), Num(500), Num(990), Num(1000), Num(1990), Num(2000)}}

NextAlerts ==
    \/ \E raw \in ItemsAlerts : Upload(raw)
    \/ Pipeline

SpecAlerts == InitPipeline /\ [][NextAlerts]_vars

----------------------------------------------------------------------------
(* Demand classes: rows that vary the demand, on one or three machines *)

ItemsClass ==
    {Item(Str(m), dem, Num(50), NaN, "RED") :
        m \in {<<"A">>, <<"A", "-", "B", "-", "C">>},
        dem \in {NaN, Num(0), Num(1300), Num(2600), Num(5200)}}

NextClass ==
    \/ \E it \in ItemsClass : AddItem(it)
    \/ \E c \in ConfigsRank : SetConfig(c)
    \/ BuildPlan

SpecClass == Init /\ [][NextClass]_vars

----------------------------------------------------------------------------
(* Template fill: src/production_plan_export.py *)
(* The decision table has the columns Item No. and Final Qty and the sheet  *)
(* has the headers Item No. and Qty; a row of either is a record of two     *)
(* cells.                                                                   *)

\* variant: leading zeros are kept in the key
digits_key_nostrip(cell) == IF cell.nan THEN <<>> ELSE KeepDigits(cell.s)

\* lines 7-12: digits only, leading zeros stripped; None and NaN have no digit
digits_key(cell) == IF cell.nan THEN <<>> ELSE LStripZeros(KeepDigits(cell.s))

\* variant: the first row of a key keeps its quantity
qty_map_first(plan_df) ==
    [k \in {digits_key(plan_df[i].ItemNo) : i \in 1..Len(plan_df)} |->
        LET first == CHOOSE i \in 1..Len(plan_df) :
                         /\ digits_key(plan_df[i].ItemNo) = k
                         /\ \A j \in 1..(i - 1) : digits_key(plan_df[j].ItemNo) # k
        IN  ToNumericFill0(plan_df[first].FinalQty)]

\* lines 39-44: dict(zip(keys, quantities)), a later row replaces an earlier
\* one with the same key; the quantities are to_numeric(...).fillna(0)
qty_map(plan_df) ==
    [k \in {digits_key(plan_df[i].ItemNo) : i \in 1..Len(plan_df)} |->
        LET last == CHOOSE i \in 1..Len(plan_df) :
                        /\ digits_key(plan_df[i].ItemNo) = k
                        /\ \A j \in (i + 1)..Len(plan_df) : digits_key(plan_df[j].ItemNo) # k
        IN  ToNumericFill0(plan_df[last].FinalQty)]

\* lines 72-84 for one sheet row: the row after the pass
FillRow(row, map) ==
    LET key == digits_key(row.ItemNo)
    IN  IF key = <<>> THEN row
        ELSE IF key \in DOMAIN map THEN [row EXCEPT !.Qty = Num(map[key])]
        ELSE row

\* variant: a row without key is reported as unmatched too
Unmatched_nokey(rows, map) ==
    SelectSeq([i \in 1..Len(rows) |-> digits_key(rows[i].ItemNo)],
              LAMBDA k : k \notin DOMAIN map)

\* lines 82-84: the keys of the rows that found no quantity, in sheet order
RECURSIVE Unmatched(_, _)
Unmatched(rows, map) ==
    IF rows = <<>> THEN <<>>
    ELSE LET key == digits_key(Head(rows).ItemNo)
         IN  (IF key # <<>> /\ key \notin DOMAIN map THEN <<key>> ELSE <<>>)
                 \o Unmatched(Tail(rows), map)

\* lines 15-90: the filled sheet, the number of cells written, the number of
\* rows not matched and their keys
fill_qty_in_client_orders(rows, plan_df) ==
    LET map == qty_map(plan_df)
    IN  [rows |-> [r \in 1..Len(rows) |-> FillRow(rows[r], map)],
         filled |-> Cardinality({r \in 1..Len(rows) :
                                   /\ digits_key(rows[r].ItemNo) # <<>>
                                   /\ digits_key(rows[r].ItemNo) \in DOMAIN map}),
         not_matched |-> Len(Unmatched(rows, map)),
         unmatched |-> Unmatched(rows, map)]

\* rows of the decision table: item numbers that share a key, and one
\* without any significant digit
FinalRows ==
    {[ItemNo |-> Str(no), FinalQty |-> q] :
        no \in {<<"0", "0", "1", "2", "3">>, <<"1", "2", "3">>, <<"0">>},
        q \in {NaN, Num(0), Num(500)}}

\* rows of the sheet, the Qty cell still blank
SheetRows ==
    {[ItemNo |-> no, Qty |-> NaN] :
        no \in {Str(<<"1", "2", "3">>), Str(<<"1", "2", "5">>), Str(<<"0">>), NaNStr}}

\* the user decides a row of the Final Plan tab
AddFinalRow(r) ==
    /\ Len(final) < MaxItems
    /\ final' = Append(final, r)
    /\ filled' = <<>>
    /\ UNCHANGED <<columns, master, cfg, status, plan, error, runs, merged, tables, sheet>>

\* a row of the uploaded template
AddSheetRow(r) ==
    /\ Len(sheet) < MaxItems
    /\ sheet' = Append(sheet, r)
    /\ filled' = <<>>
    /\ UNCHANGED <<columns, master, cfg, status, plan, error, runs, merged, tables, final>>

\* app.py lines 377-390: the button fills a copy of the template
Fill ==
    /\ filled = <<>>
    /\ filled' = fill_qty_in_client_orders(sheet, final)
    /\ UNCHANGED <<columns, master, cfg, status, plan, error, runs, merged, tables,
                   final, sheet>>

NextFill ==
    \/ \E r \in FinalRows : AddFinalRow(r)
    \/ \E r \in SheetRows : AddSheetRow(r)
    \/ Fill

SpecFill == Init /\ [][NextFill]_vars

----------------------------------------------------------------------------
(* Planning inputs: sheets that carry the Plan Qty Input column *)

ItemsPlanning ==
    {RawItem(ItemNo_other, Str(<<"A">>), dem, Num(200), Num(500))
         @@ (plan_qty_input_col :> qty) :
        dem \in {NaN, Num(0), Num(20), Num(2600)},
        qty \in {NaN, Num(0), Num(1), Num(130), Num(1300), Num(3333)}}

NextPlanning ==
    \/ \E raw \in ItemsPlanning : Upload(raw)
    \/ Pipeline

SpecPlanning == InitPipeline /\ [][NextPlanning]_vars

----------------------------------------------------------------------------
(* Stock days as the sheet gives them: blank, negative, two decimals *)

ItemsMetrics ==
    {RawItem(ItemNo_other, Str(<<"A">>), Num(1300), mpi, cust) :
        mpi \in {NaN, Num(-300), Num(496), Num(2005)},
        cust \in {NaN, Num(0), Num(100), Num(1995)}}

NextMetrics ==
    \/ \E raw \in ItemsMetrics : Upload(raw)
    \/ Pipeline

SpecMetrics == InitPipeline /\ [][NextMetrics]_vars

----------------------------------------------------------------------------
(* Management report tables: src/src/report_export.py build_report_tables   *)
(* The master table has the columns the plan was built from; a table row is *)
(* a record of the columns shown.                                           *)

\* variant: the alert text is taken as written
alert_norm_asis(x) == x

\* lines 40-51 on the alert texts the sheets of the model use: strip, upper
\* case, then RED / ORANGE / GREEN if the text contains that word
alert_norm(x) ==
    IF x \in {"RED", "red"} THEN "RED"
    ELSE IF x \in {"ORANGE", "orange"} THEN "ORANGE"
    ELSE IF x \in {"GREEN", "green"} THEN "GREEN"
    ELSE IF x \in {"YELLOW", "yellow"} THEN "YELLOW"
    ELSE x

\* variant: ORANGE is listed before RED
critical_rank_map_swapped == [RED |-> 1, ORANGE |-> 0]

\* line 204
critical_rank_map == [RED |-> 0, ORANGE |-> 1]

\* line 237
priority_rank_map == [RED |-> 0, ORANGE |-> 1, GREEN |-> 2]

\* line 187: plan_df[pmin_cols].drop_duplicates("Item No."), looked up by key:
\* the first plan row of that item number (0 if none); the plan holds the item
\* numbers as text (machine_plan.py line 136)
FirstPlanRow(plan_df, no) ==
    IF no.nan \/ ~\E i \in 1..Len(plan_df) : AsStr(plan_df[i].src[itemno_col]) = no.s
    THEN 0
    ELSE CHOOSE i \in 1..Len(plan_df) :
            /\ AsStr(plan_df[i].src[itemno_col]) = no.s
            /\ \A j \in 1..(i - 1) : AsStr(plan_df[j].src[itemno_col]) # no.s

\* lines 140-197: the master rows with normalised alert, joined on Item No.
\* with Machine, Gap Days and Proposed Production Qty of the plan
TopSource(cols, mst, plan_df) ==
    [i \in 1..Len(mst) |->
        LET p == IF plan_df # <<>> /\ itemno_col \in cols
                 THEN FirstPlanRow(plan_df, mst[i][itemno_col]) ELSE 0
        IN  [ItemNo |-> IF itemno_col \in cols THEN mst[i][itemno_col] ELSE NaNStr,
             Machine |-> IF p = 0 THEN NaNStr ELSE Str(plan_df[p].Machine),
             ProductAlert |-> alert_norm(mst[i][alert_col]),
             MonthlyDemand |-> mst[i][demand_col],
             TotalCoverageDays |-> mst[i][coverage_days_col],
             GapDays |-> IF p = 0 THEN NaN ELSE Num(plan_df[p].GapDays),
             ProposedProductionQty |->
                 IF p = 0 THEN 0 ELSE plan_df[p].ProposedProductionQty]]

\* a numeric sort key: NaN goes last whatever the direction
CellBefore(a, b, descending) ==
    IF a.nan THEN FALSE
    ELSE IF b.nan THEN TRUE
    ELSE IF descending THEN a.v > b.v ELSE a.v < b.v

CellSame(a, b) == (a.nan /\ b.nan) \/ (~a.nan /\ ~b.nan /\ a.v = b.v)

\* lines 225 and 244: sort_values by __alert_rank ascending, Gap Days
\* descending, Total Coverage Days ascending
ReportBefore(a, b) ==
    IF a.rank # b.rank THEN a.rank < b.rank
    ELSE IF ~CellSame(a.row.GapDays, b.row.GapDays)
         THEN CellBefore(a.row.GapDays, b.row.GapDays, TRUE)
    ELSE CellBefore(a.row.TotalCoverageDays, b.row.TotalCoverageDays, FALSE)

RECURSIVE InsertReportRow(_, _)
InsertReportRow(sorted, x) ==
    IF sorted = <<>> THEN <<x>>
    ELSE IF ReportBefore(x, Head(sorted)) THEN <<x>> \o sorted
    ELSE <<Head(sorted)>> \o InsertReportRow(Tail(sorted), x)

RECURSIVE SortReportRows(_)
SortReportRows(rows) ==
    IF rows = <<>> THEN <<>>
    ELSE InsertReportRow(SortReportRows(SubSeq(rows, 1, Len(rows) - 1)), rows[Len(rows)])

\* lines 200-231: the RED and ORANGE rows, sorted, the first ten
Top10Critical(top_source) ==
    LET crit == SelectSeq(top_source, LAMBDA r : r.ProductAlert \in {"RED", "ORANGE"})
        ranked == [i \in 1..Len(crit) |->
                     [rank |-> MapGet(critical_rank_map, crit[i].ProductAlert, 9),
                      row |-> crit[i]]]
        sorted == SortReportRows(ranked)
    IN  [i \in 1..(IF Len(sorted) < 10 THEN Len(sorted) ELSE 10) |-> sorted[i].row]

\* lines 233-247: every row, sorted
ProductionPriority(top_source) ==
    LET ranked == [i \in 1..Len(top_source) |->
                     [rank |-> MapGet(priority_rank_map, top_source[i].ProductAlert, 9),
                      row |-> top_source[i]]]
        sorted == SortReportRows(ranked)
    IN  [i \in 1..Len(sorted) |-> sorted[i].row]

RECURSIVE SumProposed(_)
SumProposed(rows) ==
    IF rows = <<>> THEN 0
    ELSE Head(rows).ProposedProductionQty + SumProposed(Tail(rows))

\* lines 252-280: the aggregate of the plan rows of one machine
MachineLoadRow(plan_df, m) ==
    LET p == SelectSeq(plan_df, LAMBDA r : r.Machine = m)
    IN  [Machine |-> m,
         ItemsCount |-> Len(p),
         TotalProposedQty |-> SumProposed(p),
         REDCount |-> Len(SelectSeq(p, LAMBDA r : alert_norm(r.src[alert_col]) = "RED")),
         ORANGECount |->
             Len(SelectSeq(p, LAMBDA r : alert_norm(r.src[alert_col]) = "ORANGE"))]

\* lines 282-283: sort_values on the total, descending; the order of machines
\* with equal totals is whatever the sort of the build leaves, so every
\* descending arrangement of the rows is an outcome
MachineLoadTables(plan_df) ==
    LET rows == {MachineLoadRow(plan_df, plan_df[i].Machine) : i \in 1..Len(plan_df)}
        n == Cardinality(rows)
    IN  {t \in [1..n -> rows] :
            /\ \A i, j \in 1..n : i # j => t[i] # t[j]
            /\ \A i, j \in 1..n : i < j => t[i].TotalProposedQty >= t[j].TotalProposedQty}

\* lines 149-173
ExecutiveSummary(mst, plan_df) ==
    [TotalItems |-> Len(mst),
     RED |-> Len(SelectSeq(mst, LAMBDA r : alert_norm(r[alert_col]) = "RED")),
     ORANGE |-> Len(SelectSeq(mst, LAMBDA r : alert_norm(r[alert_col]) = "ORANGE")),
     GREEN |-> Len(SelectSeq(mst, LAMBDA r : alert_norm(r[alert_col]) = "GREEN")),
     TotalProposedQty |-> SumProposed(plan_df),
     MachinesImpacted |-> Cardinality({plan_df[i].Machine : i \in 1..Len(plan_df)})]

\* lines 285-294
FinalDecision(final_df) ==
    [i \in 1..Len(final_df) |->
        [ItemNo |-> final_df[i].ItemNo,
         FinalQty |-> Num(ToNumericFill0(final_df[i].FinalQty))]]

\* lines 126-302: the outcomes of build_report_tables(master, plan, final).
\* Without an Item No. column the aggregation of line 269 names a column the
\* plan does not have.
build_report_tables(cols, mst, plan_df, final_df) ==
    IF plan_df # <<>> /\ itemno_col \notin cols
    THEN {[status |-> "raised", error |-> <<"KeyError", itemno_col>>]}
    ELSE LET top_source == TopSource(cols, mst, plan_df)
         IN  {[status |-> "ok",
               ExecutiveSummary |-> ExecutiveSummary(mst, plan_df),
               Top10Critical |-> Top10Critical(top_source),
               ProductionPriority |-> ProductionPriority(top_source),
               MachineLoad |-> ml,
               FinalDecision |-> FinalDecision(final_df)] :
                  ml \in MachineLoadTables(plan_df)}

\* app.py lines 405-433: the Reports tab builds the tables from the master
\* table and the plan of the Machine Plan tab
Report ==
    /\ status = "built"
    /\ tables = <<>>
    /\ tables' \in build_report_tables(columns, master, plan, final)
    /\ UNCHANGED <<columns, master, cfg, status, plan, error, runs, merged, final,
                   sheet, filled>>

ReportCols == BaseCols \cup {itemno_col}

InitReport == InitWith({ReportCols})

\* rows that vary the alert and the gap, on one machine
ItemsPriority ==
    {Item(Str(<<"A">>), Num(1300), Num(50), cov, al) @@ (itemno_col :> Str(no)) :
        no \in {<<"1">>, <<"2">>},
        cov \in {Num(909), Num(4000)},
        al \in {"RED", "ORANGE", "YELLOW", "GREEN", ""}}

NextPriority ==
    \/ \E it \in ItemsPriority : AddItem(it)
    \/ \E c \in ConfigsRank : SetConfig(c)
    \/ BuildPlan
    \/ Report

SpecPriority == InitReport /\ [][NextPriority]_vars

\* rows that vary the machines, the quantity and the spelling of the alert
ItemsLoad ==
    {Item(Str(m), Num(1300), dly, NaN, al) @@ (itemno_col :> Str(<<"1">>)) :
        m \in {<<"A">>, <<"B">>, <<"A", "-", "B">>},
        dly \in {Num(50), Num(100)},
        al \in {"RED", "red", "ORANGE", "GREEN"}}

NextLoad ==
    \/ \E it \in ItemsLoad : AddItem(it)
    \/ \E c \in ConfigsRank : SetConfig(c)
    \/ BuildPlan
    \/ Report

SpecLoad == InitReport /\ [][NextLoad]_vars

----------------------------------------------------------------------------
(* Override columns on sheets whose items name one or two machines *)

ItemsOverrideMachines ==
    {Item(Str(m), Num(1300), Num(50), NaN, "RED")
         @@ (target_months_input_col :> tm) @@ (safety_days_input_col :> sd) :
        m \in {<<"A">>, <<"A", "-", "B">>},
        tm \in {NaN, Num(0), Num(133)},
        sd \in {NaN, Num(0), Num(25)}}

NextOverrideMachines ==
    \/ \E it \in ItemsOverrideMachines : AddItem(it)
    \/ \E c \in ConfigsRank : SetConfig(c)
    \/ BuildPlan

SpecOverrideMachines == InitOverride /\ [][NextOverrideMachines]_vars

----------------------------------------------------------------------------
(* Class maps of a caller that configures only some demand classes *)

ItemsDefaults ==
    {Item(Str(m), dem, Num(50), cov, "RED") :
        m \in {<<"A">>, <<"A", "-", "B", "-", "C">>},
        dem \in {NaN, Num(1300), Num(2600)},
        cov \in {NaN, Num(4000)}}

\* lines 45-47: the maps the caller hands to build_production_plan
ConfigsDefaults ==
    {[target_months_map |-> tm, safety_days_map |-> sd,
      min_batch_months_map |-> mb, batch_round_to |-> 0] :
        tm \in {PLAN_DEFAULTS.target_months_map, [VERY_HIGH |-> 3]},
        sd \in {PLAN_DEFAULTS.safety_days_map, [VERY_HIGH |-> 14]},
        mb \in {PLAN_DEFAULTS.min_batch_months_map, [LOW |-> 4]}}

NextDefaults ==
    \/ \E it \in ItemsDefaults : AddItem(it)
    \/ \E c \in ConfigsDefaults : SetConfig(c)
    \/ BuildPlan

SpecDefaults == Init /\ [][NextDefaults]_vars

----------------------------------------------------------------------------
(* Machine specs with blanks, empty tokens and the texts "nan" and "None" *)

ItemsTokens ==
    {Item(m, dem, Num(50), NaN, "RED") :
        m \in {Str(<<"A">>), Str(<<" ", "A", " ", "-", "-", " ", "B">>),
               Str(<<"A", "-", "n", "a", "n">>), Str(<<"N", "o", "n", "e">>),
               Str(<<"n", "a", "n">>), Str(<<" ">>), Str(<<>>), NaNStr},
        dem \in {Num(1300), Num(2600)}}

NextTokens ==
    \/ \E it \in ItemsTokens : AddItem(it)
    \/ \E c \in ConfigsRank : SetConfig(c)
    \/ BuildPlan

SpecTokens == Init /\ [][NextTokens]_vars

----------------------------------------------------------------------------
(* add_alerts on a table whose coverage cells may be missing, then the plan *)

BareCols == {machine_col, demand_col, daily_col, coverage_days_col, cust_days_col}

\* rows without alerts: coverage missing, 5.0 days or 600.0 days
ItemsBare ==
    {(machine_col :> Str(m)) @@ (demand_col :> Num(1300)) @@ (daily_col :> Num(50))
         @@ (coverage_days_col :> cov) @@ (cust_days_col :> cust) :
        m \in {<<"A">>, <<"A", "-", "B">>},
        cov \in {NaN, Num(50), Num(6000)},
        cust \in {NaN, Num(30)}}

\* a row is loaded into the table that has no alert columns yet
LoadItem(it) == alert_col \notin columns /\ AddItem(it)

\* src/src/alerts.py lines 92-113: master = add_alerts(master)
AddAlerts ==
    /\ master # <<>>
    /\ alert_col \notin columns
    /\ master' = [i \in 1..Len(master) |-> add_alerts(master[i])]
    /\ columns' = columns \cup {alert_col, cust_alert_col}
    /\ status' = "idle"
    /\ plan' = <<>>
    /\ error' = <<>>
    /\ runs' = 0
    /\ tables' = <<>>
    /\ UNCHANGED <<cfg, merged, final, sheet, filled>>

InitBare == InitWith({BareCols})

NextBare ==
    \/ \E it \in ItemsBare : LoadItem(it)
    \/ \E c \in ConfigsRank : SetConfig(c)
    \/ AddAlerts
    \/ BuildPlan

SpecBare == InitBare /\ [][NextBare]_vars

----------------------------------------------------------------------------
(* What-if inputs: the same sheet uploaded again with other planning inputs *)

\* rows of the stock sheet, the what-if columns blank
ItemsWhatIf ==
    {RawItem(ItemNo_other, Str(<<"A">>), dem, mpi, Num(500)) :
        dem \in {Num(1300), Num(2600)},
        mpi \in {Num(200)}}

\* Plan Qty Input (units) and Plan Months Input (hundredths of a month) of a
\* row: both blank, the quantity alone, or both
WhatIfInputs == {<<NaN, NaN>>, <<Num(1300), NaN>>, <<Num(1300), Num(200)>>}

\* the sheet comes back with other what-if inputs on row i and nothing else
\* changed; the script runs the pipeline of app.py lines 114-138 on it.  The
\* plan kept is the one built from the sheet before the change.
EditWhatIf(i, qty, months) ==
    /\ status = "built"
    /\ i \in 1..Len(merged)
    /\ LET row == (plan_qty_input_col :> qty) @@ (plan_months_input_col :> months)
                      @@ merged[i]
       IN  /\ row # merged[i]
           /\ merged' = [merged EXCEPT ![i] = row]
    /\ master' = [k \in 1..Len(merged) |-> PipelineRow(merged'[k])]
    /\ UNCHANGED <<columns, cfg, status, plan, error, runs, tables, final, sheet, filled>>

NextWhatIf ==
    \/ \E raw \in ItemsWhatIf : Upload(raw)
    \/ Pipeline
    \/ BuildPlan
    \/ \E i \in 1..MaxItems, w \in WhatIfInputs : EditWhatIf(i, w[1], w[2])
    \/ Rerun

SpecWhatIf == InitPipeline /\ [][NextWhatIf]_vars

----------------------------------------------------------------------------
(* Template fill on sheets whose Qty cells already hold a figure *)

FinalRowsCounts ==
    {[ItemNo |-> Str(no), FinalQty |-> Num(500)] :
        no \in {<<"0", "0", "1", "2", "3">>, <<"0">>}}

SheetRowsCounts ==
    {[ItemNo |-> no, Qty |-> q] :
        no \in {Str(<<"1", "2", "3">>), Str(<<"1", "2", "5">>), Str(<<"0">>), NaNStr},
        q \in {NaN, Num(7)}}

NextCounts ==
    \/ \E r \in FinalRowsCounts : AddFinalRow(r)
    \/ \E r \in SheetRowsCounts : AddSheetRow(r)
    \/ Fill

SpecCounts == Init /\ [][NextCounts]_vars

----------------------------------------------------------------------------
(* Sheets of nine and more items for the Top 10 table *)

\* coverage in tenths of a day and monthly demand, repeated down the sheet
CovCycle == <<30, 150, 65, 700, 205, 0, 100>>
DemCycle == <<1300, 2600, 0, 5200>>

\* row k of the sheet that starts the two cycles at a and d: the metrics and
\* the alert as the pipeline derives them, every third item on two machines
SheetItem(k, a, d) ==
    LET cov == CovCycle[((k + a) % Len(CovCycle)) + 1]
        dem == DemCycle[((k + d) % Len(DemCycle)) + 1]
    IN  Item(Str(IF k % 3 = 0 THEN <<"A", "-", "B">> ELSE <<"A">>),
             Num(dem), Num(RoundHalfEven(dem, WORKING_DAYS)), Num(cov),
             product_alert(Num(cov)))
            @@ (itemno_col :> Str(Dec(k)))

\* a sheet of n items is uploaded
LoadSheet(n, a, d) ==
    /\ master = <<>>
    /\ master' = [k \in 1..n |-> [c \in columns |-> SheetItem(k, a, d)[c]]]
    /\ status' = "idle"
    /\ plan' = <<>>
    /\ error' = <<>>
    /\ runs' = 0
    /\ tables' = <<>>
    /\ UNCHANGED <<columns, cfg, merged, final, sheet, filled>>

NextTop ==
    \/ \E n \in 9..MaxSheet, a \in 0..(Len(CovCycle) - 1), d \in 0..(Len(DemCycle) - 1) :
          LoadSheet(n, a, d)
    \/ \E c \in ConfigsRank : SetConfig(c)
    \/ BuildPlan
    \/ Report

SpecTop == InitReport /\ [][NextTop]_vars

----------------------------------------------------------------------------
(* Slow movers: monthly demands around half the working days of a month *)

\* stock days in hundredths: 2.00 days (RED) or 1000.00 days (covered)
ItemsSlow ==
    {RawItem(ItemNo_other, Str(<<"A">>), dem, mpi, Num(0)) :
        dem \in {NaN, Num(0), Num(1), Num(12), Num(13), Num(14), Num(1300)},
        mpi \in {Num(200), Num(100000)}}

NextSlow ==
    \/ \E raw \in ItemsSlow : Upload(raw)
    \/ Pipeline
    \/ \E c \in ConfigsRank : SetConfig(c)
    \/ BuildPlan

SpecSlow == InitPipeline /\ [][NextSlow]_vars

----------------------------------------------------------------------------
(* Template fill from a decision table with one row per machine of an item *)

FinalRowsMachines ==
    {[ItemNo |-> Str(no), FinalQty |-> Num(q)] :
        no \in {<<"0", "0", "1", "2", "3">>, <<"1", "2", "3">>, <<"1", "2", "5">>},
        q \in {300, 500}}

SheetRowsMachines ==
    {[ItemNo |-> Str(no), Qty |-> q] :
        no \in {<<"1", "2", "3">>, <<"1", "2", "5">>},
        q \in {NaN, Num(7)}}

NextMachines ==
    \/ \E r \in FinalRowsMachines : AddFinalRow(r)
    \/ \E r \in SheetRowsMachines : AddSheetRow(r)
    \/ Fill

SpecMachines == Init /\ [][NextMachines]_vars

----------------------------------------------------------------------------
(* Demand columns of one to twelve rows for the classifier *)

\* monthly demands repeated down the sheet: positive, zero, negative, missing
DemandCycle ==
    <<Num(1300), Num(-5), Num(2600), Num(0), Num(5200), NaN, Num(650), Num(3900)>>

\* row k of the sheet that starts the cycle at a; when equal, every positive
\* demand of the sheet is 1300
DemandItem(k, a, equal) ==
    LET dem == DemandCycle[((k + a) % Len(DemandCycle)) + 1]
    IN  Item(Str(<<"A">>),
             IF equal /\ ~dem.nan /\ dem.v > 0 THEN Num(1300) ELSE dem,
             Num(50), NaN, "RED")

\* a sheet of n items is uploaded
LoadDemands(n, a, equal) ==
    /\ master = <<>>
    /\ master' = [k \in 1..n |-> [c \in columns |-> DemandItem(k, a, equal)[c]]]
    /\ status' = "idle"
    /\ plan' = <<>>
    /\ error' = <<>>
    /\ runs' = 0
    /\ tables' = <<>>
    /\ UNCHANGED <<columns, cfg, merged, final, sheet, filled>>

NextDemands ==
    \/ \E n \in 1..MaxSheet, a \in 0..(Len(DemandCycle) - 1), equal \in BOOLEAN :
          LoadDemands(n, a, equal)
    \/ \E c \in ConfigsRank : SetConfig(c)
    \/ BuildPlan

SpecDemands == Init /\ [][NextDemands]_vars

----------------------------------------------------------------------------
(* Properties of the plan rows *)

Built == status = "built"

PlanRows == {plan[i] : i \in 1..Len(plan)}

DailyOf(r) == ToNumericFill0(r.src[daily_col])
CoverageOf(r) == ToNumericFill0(r.src[coverage_days_col])
MonthlyOf(r) == ToNumericFill0(r.src[demand_col])

\* the unrounded quantity the code computes for a plan row
UnroundedQty(r) == ProposedQty(r.GapDays, DailyOf(r))

\* C2: with batch rounding disabled every plan row has Proposed Production Qty
\* equal to ceil(gap_days * daily_demand), the product taken exactly (gap days
\* are tenths; a non-numeric daily demand counts as 0)
C2_QtyIsCeilOfProduct ==
    (Built /\ cfg.batch_round_to = 0) =>
        \A r \in PlanRows :
            r.ProposedProductionQty = CeilDiv(r.GapDays * DailyOf(r), 10)

\* C3: with batch_round_to = B > 0, a row whose unrounded quantity q is positive
\* gets the smallest multiple of B that is >= q: a positive multiple of B,
\* at least q and below q + B
C3_BatchRoundIsSmallestMultiple ==
    (Built /\ cfg.batch_round_to > 0) =>
        \A r \in PlanRows :
            UnroundedQty(r) > 0 =>
                /\ r.ProposedProductionQty > 0
                /\ r.ProposedProductionQty % cfg.batch_round_to = 0
                /\ r.ProposedProductionQty >= UnroundedQty(r)
                /\ r.ProposedProductionQty < UnroundedQty(r) + cfg.batch_round_to

\* a row is rounded up from a quantity that is not a multiple of the batch, and
\* another configuration leaves a quantity that already is one
C3_Witness ==
    /\ Built
    /\ cfg.batch_round_to > 0
    /\ \E r \in PlanRows :
          /\ UnroundedQty(r) > 0
          /\ UnroundedQty(r) % cfg.batch_round_to # 0
          /\ r.ProposedProductionQty > UnroundedQty(r)

\* C4: a plan row with gap_days = 0 has Proposed Production Qty = 0 for every
\* daily demand and every batch_round_to
C4_ZeroGapZeroQty ==
    Built => \A r \in PlanRows : r.GapDays = 0 => r.ProposedProductionQty = 0

\* a covered row with positive daily demand under batch rounding
C4_Witness ==
    /\ Built
    /\ cfg.batch_round_to > 0
    /\ \E r \in PlanRows :
          r.GapDays = 0 /\ DailyOf(r) > 0 /\ r.ProposedProductionQty = 0

\* C6: Gap Days = max(0, Plan Coverage Days - current coverage), a missing
\* coverage counting as 0; never negative, and 0 exactly when the current
\* coverage is at least Plan Coverage Days
C6_GapIsClippedShortfall ==
    Built =>
        \A r \in PlanRows :
            /\ r.GapDays = Max(0, r.PlanCoverageDays - CoverageOf(r))
            /\ r.GapDays >= 0
            /\ (r.GapDays = 0 <=> CoverageOf(r) >= r.PlanCoverageDays)

\* one row with a missing coverage cell (gap = plan coverage) and one row
\* covered beyond its plan coverage (gap 0)
C6_Witness ==
    /\ Built
    /\ \E r \in PlanRows :
          r.src[coverage_days_col].nan /\ r.GapDays = r.PlanCoverageDays /\ r.GapDays > 0
    /\ \E r \in PlanRows :
          CoverageOf(r) > r.PlanCoverageDays /\ r.GapDays = 0

----------------------------------------------------------------------------
(* Ranking *)

ClaimedPriority(alert) ==
    CASE alert = "RED" -> 0
      [] alert = "ORANGE" -> 1
      [] alert = "YELLOW" -> 2
      [] alert = "GREEN" -> 3
      [] OTHER -> 9

\* a's key is lexicographically before b's: alert priority ascending, then gap
\* days, proposed quantity and monthly demand descending
KeyBefore(a, b) ==
    LET pa == ClaimedPriority(a.src[alert_col])
        pb == ClaimedPriority(b.src[alert_col])
    IN  \/ pa < pb
        \/ pa = pb /\ a.GapDays > b.GapDays
        \/ pa = pb /\ a.GapDays = b.GapDays
              /\ a.ProposedProductionQty > b.ProposedProductionQty
        \/ pa = pb /\ a.GapDays = b.GapDays
              /\ a.ProposedProductionQty = b.ProposedProductionQty
              /\ MonthlyOf(a) > MonthlyOf(b)

SameKey(a, b) == ~KeyBefore(a, b) /\ ~KeyBefore(b, a)

\* C1: of two plan rows of the same Machine, the one whose key (alert priority
\* RED=0 ORANGE=1 YELLOW=2 GREEN=3 else 9, then gap days, proposed quantity and
\* monthly demand descending) comes first has the smaller Production Rank
C1_RankFollowsKey ==
    Built =>
        \A a, b \in PlanRows :
            (a.Machine = b.Machine /\ KeyBefore(a, b)) =>
                a.ProductionRank < b.ProductionRank

\* a RED row ranks before an ORANGE row of its machine that has the larger gap
C1_Witness ==
    /\ Built
    /\ \E a, b \in PlanRows :
          /\ a.Machine = b.Machine
          /\ a.src[alert_col] = "RED" /\ b.src[alert_col] = "ORANGE"
          /\ b.GapDays > a.GapDays
          /\ a.ProductionRank < b.ProductionRank

PlanPositions(m) == {i \in 1..Len(plan) : plan[i].Machine = m}

\* C8: within each Machine group of k rows the Production Rank values are
\* exactly 1..k, each used once, also when rows have identical sort keys
C8_RanksAreOneToK ==
    Built =>
        \A i \in 1..Len(plan) :
            LET grp == PlanPositions(plan[i].Machine)
            IN  /\ {plan[j].ProductionRank : j \in grp} = 1..Cardinality(grp)
                /\ \A j \in grp : j # i => plan[j].ProductionRank # plan[i].ProductionRank

\* two rows of one machine with identical sort keys hold ranks 1 and 2
C8_Witness ==
    /\ Built
    /\ \E i, j \in 1..Len(plan) :
          /\ i # j
          /\ plan[i].Machine = plan[j].Machine
          /\ SameKey(plan[i], plan[j])
          /\ plan[i].ProductionRank = 1
          /\ plan[j].ProductionRank = 2

----------------------------------------------------------------------------
(* Explosion and repeated builds *)

RECURSIVE Hyphens(_)
Hyphens(str) ==
    IF str = <<>> THEN 0
    ELSE (IF Head(str) = "-" THEN 1 ELSE 0) + Hyphens(Tail(str))

\* number of hyphen-separated tokens of a machine cell
TokenCount(cell) == Hyphens(AsStr(cell)) + 1

RECURSIVE TotalTokens(_, _)
TotalTokens(mst, i) ==
    IF i > Len(mst) THEN 0
    ELSE TokenCount(mst[i][machine_col]) + TotalTokens(mst, i + 1)

RowsOfItem(i) == {p \in 1..Len(plan) : plan[p].idx = i}

\* C7: every item yields as many plan rows as its machine spec has
\* hyphen-separated tokens (one for a spec without hyphen, blank or absent
\* included), repeated names not merged; the rows of one item carry identical
\* item-level fields; the plan has the sum of the token counts as row count
C7_OneRowPerToken ==
    Built =>
        /\ Len(plan) = TotalTokens(master, 1)
        /\ \A i \in 1..Len(master) :
              /\ Cardinality(RowsOfItem(i)) = TokenCount(master[i][machine_col])
              /\ \A p, q \in RowsOfItem(i) :
                    /\ plan[p].src = master[i]
                    /\ plan[p].DemandClass = plan[q].DemandClass
                    /\ plan[p].PlanCoverageDays = plan[q].PlanCoverageDays
                    /\ plan[p].GapDays = plan[q].GapDays
                    /\ plan[p].ProposedProductionQty = plan[q].ProposedProductionQty

\* an item naming three machines next to an item naming one machine twice
C7_Witness ==
    /\ Built
    /\ \E i \in 1..Len(master) : Cardinality(RowsOfItem(i)) = 3
    /\ \E i \in 1..Len(master) :
          \E p, q \in RowsOfItem(i) : p # q /\ plan[p].Machine = plan[q].Machine

----------------------------------------------------------------------------
(* Missing columns *)

MissingRequired ==
    {c \in {machine_col, demand_col, daily_col, coverage_days_col} : c \notin columns}

\* C10: when the machine, monthly-demand, daily-demand or coverage-days column
\* is absent, the build raises the precondition error naming a missing column
\* and returns no plan; a build never changes the input table
C10_MissingColumnRaises ==
    /\ []((runs >= 1 /\ MissingRequired # {}) =>
            /\ status = "raised"
            /\ plan = <<>>
            /\ Len(error) = 3
            /\ error[1] = "ValueError"
            /\ error[2] = "Missing required column: "
            /\ error[3] \in MissingRequired)
    /\ [][runs' = runs + 1 => (master' = master /\ columns' = columns)]_vars

\* a build on a non-empty sheet without the coverage column was refused
C10_Witness ==
    /\ runs >= 1
    /\ Len(master) >= 1
    /\ coverage_days_col \notin columns
    /\ status = "raised"
    /\ error = <<"ValueError", "Missing required column: ", coverage_days_col>>

----------------------------------------------------------------------------
(* Plan coverage *)

MinBatchMonths(r) == MapGet(cfg.min_batch_months_map, r.DemandClass, 0)

----------------------------------------------------------------------------
(* Properties of the alerts *)

PipelineDone == master # <<>> /\ merged # <<>>

MasterRows == IF PipelineDone THEN 1..Len(master) ELSE {}

\* the tier of a coverage of d tenths of a day under the cut-offs red < orange < yellow
Tier(d, red, orange, yellow) ==
    IF d < red THEN "RED"
    ELSE IF d < orange THEN "ORANGE"
    ELSE IF d < yellow THEN "YELLOW"
    ELSE "GREEN"

ProductTier(d) == Tier(d, 70, 210, 600)

CustTier(d) == Tier(d, 50, 100, 200)

Severity == [RED |-> 3, ORANGE |-> 2, YELLOW |-> 1, GREEN |-> 0]

\* the item number of a master row, digits only, leading zeros stripped, is
\* on the exclusion list
InExclusionSet(i) ==
    LStripZeros(KeepDigits(master[i][itemno_col].s)) \in CUST_ALERT_EXCLUDE_ITEMNOS

TotalOf(i) == master[i][coverage_days_col]
CustOf(i) == master[i][cust_days_col]

\* C11: every non-NaN coverage d gets the Product Alert RED / ORANGE / YELLOW /
\* GREEN for d < 7, < 21, < 60, >= 60 and (on rows the exclusion list leaves
\* alone) the CUST Alert for d < 5, < 10, < 20, >= 20; a value on a boundary is
\* in the better tier, and a larger d never has a more severe alert.
C11_AlertTiers ==
    /\ \A i \in MasterRows :
          /\ ~TotalOf(i).nan => master[i][alert_col] = ProductTier(TotalOf(i).v)
          /\ (~CustOf(i).nan /\ ~InExclusionSet(i))
                => master[i][cust_alert_col] = CustTier(CustOf(i).v)
    /\ \A i, j \in MasterRows :
          /\ (~TotalOf(i).nan /\ ~TotalOf(j).nan /\ TotalOf(i).v <= TotalOf(j).v)
                => Severity[master[i][alert_col]] >= Severity[master[j][alert_col]]
          /\ (~CustOf(i).nan /\ ~CustOf(j).nan /\ CustOf(i).v <= CustOf(j).v
                 /\ ~InExclusionSet(i) /\ ~InExclusionSet(j))
                => Severity[master[i][cust_alert_col]] >= Severity[master[j][cust_alert_col]]

\* a coverage of exactly 21.0 days is YELLOW next to one of 20.9 days that is
\* ORANGE; their customer coverages of exactly 10.0 and of 9.9 days are YELLOW
\* and ORANGE
C11_Witness ==
    \E i, j \in MasterRows :
        /\ TotalOf(i).v = 210 /\ master[i][alert_col] = "YELLOW"
        /\ TotalOf(j).v = 209 /\ master[j][alert_col] = "ORANGE"
        /\ CustOf(i).v = 100 /\ master[i][cust_alert_col] = "YELLOW"
        /\ CustOf(j).v = 99 /\ master[j][cust_alert_col] = "ORANGE"

\* C12: after add_alerts an item whose normalised number is on the exclusion
\* list has an empty CUST Alert whatever its CUST Stock Days (0 included); its
\* Product Alert, and both alerts of every other item, are those of the
\* thresholds.
C12_ExclusionBlanksCustAlertOnly ==
    \A i \in MasterRows :
        /\ master[i][alert_col] = ProductTier(TotalOf(i).v)
        /\ master[i][cust_alert_col] =
              IF InExclusionSet(i) THEN "" ELSE CustTier(CustOf(i).v)

\* an excluded item with 0 customer days and an empty CUST Alert, next to an
\* item that is not excluded and keeps its alert
C12_Witness ==
    \E i, j \in MasterRows :
        /\ InExclusionSet(i) /\ CustOf(i).v = 0
        /\ master[i][cust_alert_col] = "" /\ master[i][alert_col] # ""
        /\ ~InExclusionSet(j) /\ CustOf(j).v = 0 /\ master[j][cust_alert_col] = "RED"

AlertTiers == {"RED", "ORANGE", "YELLOW", "GREEN"}

\* C17: after compute_metrics_qty_based and add_alerts every Product Alert is
\* one of the four tiers; a CUST Alert is empty only for an excluded item or a
\* NaN customer coverage input, and is one of the four tiers otherwise.
C17_AlertsNeverEmpty ==
    \A i \in MasterRows :
        /\ master[i][alert_col] \in AlertTiers
        /\ master[i][cust_alert_col] \in AlertTiers \cup {""}
        /\ master[i][cust_alert_col] = ""
              => (InExclusionSet(i) \/ merged[i][cust_days_col].nan)

\* an item that is not excluded, with a customer coverage that does not parse,
\* has both alerts set
C17_Witness ==
    \E i \in MasterRows :
        /\ ~InExclusionSet(i) /\ merged[i][cust_days_col].nan
        /\ master[i][cust_alert_col] \in AlertTiers
        /\ master[i][alert_col] \in AlertTiers

----------------------------------------------------------------------------
(* Properties of the demand classes *)

PlanIndex == 1..Len(plan)

\* the plan rows whose monthly demand is strictly positive
PositiveRows == {i \in PlanIndex : MonthlyOf(plan[i]) > 0}

\* the k-th smallest of the positive demands of the plan rows, counted with
\* their multiplicity
KthPositive(k) ==
    CHOOSE x \in {MonthlyOf(plan[i]) : i \in PositiveRows} :
        /\ Cardinality({i \in PositiveRows : MonthlyOf(plan[i]) < x}) < k
        /\ k <= Cardinality({i \in PositiveRows : MonthlyOf(plan[i]) <= x})

\* 100 times the q100-th percentile of the positive demands, by linear
\* interpolation between the two nearest ranks
CutPoint100(q100) ==
    LET h == (Cardinality(PositiveRows) - 1) * q100
        lo == (h \div 100) + 1
    IN  IF h % 100 = 0 THEN 100 * KthPositive(lo)
        ELSE 100 * KthPositive(lo)
                 + (h % 100) * (KthPositive(lo + 1) - KthPositive(lo))

ClaimedClass(v) ==
    IF PositiveRows = {} THEN "VERY_LOW"
    ELSE IF 100 * v >= CutPoint100(90) THEN "VERY_HIGH"
    ELSE IF 100 * v >= CutPoint100(70) THEN "HIGH"
    ELSE IF 100 * v >= CutPoint100(40) THEN "MEDIUM"
    ELSE IF 100 * v >= CutPoint100(15) THEN "LOW"
    ELSE "VERY_LOW"

\* C13: the cut points p90, p70, p40, p15 are taken over the strictly positive
\* monthly demands of the exploded rows (an item with k machine tokens counts
\* k times); every row, zero demand included, is VERY_HIGH / HIGH / MEDIUM /
\* LOW / VERY_LOW by the first cut point its demand reaches, and every row is
\* VERY_LOW when no demand is positive.
C13_ClassByCutPoints ==
    Built => \A i \in PlanIndex : plan[i].DemandClass = ClaimedClass(MonthlyOf(plan[i]))

\* one item of demand 2600 on one machine and one of demand 1300 on three: the
\* three rows of 1300 pull p40 down to 1300 and are MEDIUM (over the two items
\* alone p15 would be 1495 and they would be VERY_LOW)
C13_Witness ==
    /\ Built
    /\ Len(master) = 2 /\ Len(plan) = 4
    /\ \E i \in PlanIndex : MonthlyOf(plan[i]) = 2600 /\ plan[i].DemandClass = "VERY_HIGH"
    /\ \E i \in PlanIndex : MonthlyOf(plan[i]) = 1300 /\ plan[i].DemandClass = "MEDIUM"

----------------------------------------------------------------------------
(* Properties of the template fill *)

Filled == filled # <<>>

\* the item number reduced to its digits, leading zeros stripped
NormalizedNo(cell) == IF cell.nan THEN <<>> ELSE LStripZeros(KeepDigits(cell.s))

\* sheet row r and decision row p carry the same normalised item number
SameItem(r, p) == NormalizedNo(sheet[r].ItemNo) = NormalizedNo(final[p].ItemNo)

\* the Qty cell of sheet row r holds the quantity of a decision row of the
\* same item (0 for a quantity that does not parse)
QtyWritten(r) ==
    \E p \in 1..Len(final) :
        /\ SameItem(r, p)
        /\ filled.rows[r].Qty = Num(ToNumericFill0(final[p].FinalQty))

\* C14 as stated: whenever a sheet row and a decision row have equal
\* normalised item numbers, the quantity is in the Qty cell of the sheet row.
C14_EveryMatchWritten ==
    Filled => \A r \in 1..Len(sheet) :
                 (\E p \in 1..Len(final) : SameItem(r, p)) => QtyWritten(r)

\* C14: rows match when their item numbers, digits only and leading zeros
\* stripped, are equal and not empty; every matched sheet row gets the
\* quantity, a quantity of 0 included, and a sheet row whose item number has no
\* significant digit is left as it was.
C14_NonEmptyMatchWritten ==
    Filled => \A r \in 1..Len(sheet) :
                 /\ (NormalizedNo(sheet[r].ItemNo) # <<>>
                        /\ \E p \in 1..Len(final) : SameItem(r, p)) => QtyWritten(r)
                 /\ NormalizedNo(sheet[r].ItemNo) = <<>> => filled.rows[r] = sheet[r]

\* decision row "00123" with quantity 0, sheet row "123": a 0 is in the Qty
\* cell and the row is counted as filled
C14_Witness ==
    /\ Filled
    /\ \E r \in 1..Len(sheet), p \in 1..Len(final) :
          /\ sheet[r].ItemNo.s = <<"1", "2", "3">>
          /\ final[p].ItemNo.s = <<"0", "0", "1", "2", "3">>
          /\ final[p].FinalQty = Num(0)
          /\ Len(final) = 1
          /\ filled.rows[r].Qty = Num(0)
          /\ filled.filled >= 1

----------------------------------------------------------------------------
(* Properties of the planning columns *)

PlanQtyOf(i) == master[i][plan_qty_input_col]
MonthlyDemandOf(i) == master[i][demand_col].v
MonthsCoveredOf(i) == master[i][months_covered_col]

\* C15: Months Covered by Plan Qty is plan_qty_input / monthly_demand to the
\* nearest tenth; it is 0 when monthly_demand is 0 (whatever the input) or the
\* input is missing; it is always a finite number.
C15_MonthsCoveredFinite ==
    \A i \in MasterRows :
        /\ MonthsCoveredOf(i) = Num(MonthsCoveredOf(i).v)
        /\ (MonthlyDemandOf(i) = 0 \/ PlanQtyOf(i).nan) => MonthsCoveredOf(i).v = 0
        /\ (MonthlyDemandOf(i) # 0 /\ ~PlanQtyOf(i).nan) =>
              LET err == MonthsCoveredOf(i).v * MonthlyDemandOf(i) - 10 * PlanQtyOf(i).v
              IN  /\ 2 * err <= MonthlyDemandOf(i)
                  /\ -2 * err <= MonthlyDemandOf(i)

\* a plan quantity of 1300 on an item without demand gives 0 months, next to
\* an item of demand 2600 where it gives 0.5 months
C15_Witness ==
    \E i, j \in MasterRows :
        /\ MonthlyDemandOf(i) = 0 /\ PlanQtyOf(i) = Num(1300) /\ MonthsCoveredOf(i) = Num(0)
        /\ MonthlyDemandOf(j) = 2600 /\ PlanQtyOf(j) = Num(1300) /\ MonthsCoveredOf(j) = Num(5)

----------------------------------------------------------------------------
(* Properties of the metrics *)

MpiOf(i) == master[i][mpi_days_col]

\* C16: Total Coverage Days = MPI Stock days + CUST Stock Days, an input that
\* does not parse counting as 0, and Total Coverage Days is never negative.
C16_TotalIsSumAndNonNegative ==
    \A i \in MasterRows :
        /\ merged[i][mpi_days_col].nan => MpiOf(i) = Num(0)
        /\ merged[i][cust_days_col].nan => CustOf(i) = Num(0)
        /\ TotalOf(i) = Num(MpiOf(i).v + CustOf(i).v)
        /\ TotalOf(i).v >= 0

----------------------------------------------------------------------------
(* Properties of the report tables *)

Reported == tables # <<>> /\ tables.status = "ok"

\* C18: the Production Priority table lists all RED rows, then ORANGE, then
\* YELLOW, then GREEN, then the rows of unknown alert, and within one alert
\* the rows by Gap Days descending: the ordering of the plan builder's rank.
C18_PriorityTableOrder ==
    Reported =>
        LET pp == tables.ProductionPriority
        IN  \A i, j \in 1..Len(pp) :
                i < j =>
                    /\ ClaimedPriority(pp[i].ProductAlert) <= ClaimedPriority(pp[j].ProductAlert)
                    /\ ClaimedPriority(pp[i].ProductAlert) = ClaimedPriority(pp[j].ProductAlert)
                          => pp[i].GapDays.v >= pp[j].GapDays.v

\* the alert text in upper case
UpperAlert(x) ==
    CASE x = "red" -> "RED"
      [] x = "orange" -> "ORANGE"
      [] x = "green" -> "GREEN"
      [] x = "yellow" -> "YELLOW"
      [] OTHER -> x

PlanMachines == {plan[i].Machine : i \in 1..Len(plan)}

RowsOfMachine(m) == {i \in 1..Len(plan) : plan[i].Machine = m}

RECURSIVE SumQtyOver(_)
SumQtyOver(S) ==
    IF S = {} THEN 0
    ELSE LET i == CHOOSE k \in S : TRUE
         IN  plan[i].ProposedProductionQty + SumQtyOver(S \ {i})

\* C19: the Machine Load table has exactly one row per Machine of the plan,
\* with the number of plan rows of the machine, the sum of their Proposed
\* Production Qty and the numbers of them whose normalised alert is RED and
\* ORANGE; the rows are in descending order of the summed quantity.
C19_MachineLoad ==
    Reported =>
        LET ml == tables.MachineLoad
        IN  /\ \A m \in PlanMachines :
                  Cardinality({i \in 1..Len(ml) : ml[i].Machine = m}) = 1
            /\ \A i \in 1..Len(ml) :
                  LET rows == RowsOfMachine(ml[i].Machine)
                  IN  /\ ml[i].Machine \in PlanMachines
                      /\ ml[i].ItemsCount = Cardinality(rows)
                      /\ ml[i].TotalProposedQty = SumQtyOver(rows)
                      /\ ml[i].REDCount = Cardinality(
                            {k \in rows : UpperAlert(plan[k].src[alert_col]) = "RED"})
                      /\ ml[i].ORANGECount = Cardinality(
                            {k \in rows : UpperAlert(plan[k].src[alert_col]) = "ORANGE"})
            /\ \A i, j \in 1..Len(ml) :
                  i < j => ml[i].TotalProposedQty >= ml[j].TotalProposedQty

\* two machines: the first carries two plan rows and the larger total, one of
\* its rows has the alert written "red" and is counted as RED
C19_Witness ==
    /\ Reported
    /\ Len(tables.MachineLoad) = 2
    /\ tables.MachineLoad[1].ItemsCount = 2
    /\ tables.MachineLoad[2].ItemsCount = 1
    /\ tables.MachineLoad[1].TotalProposedQty > tables.MachineLoad[2].TotalProposedQty
    /\ tables.MachineLoad[1].REDCount = 1
    /\ tables.MachineLoad[1].ORANGECount = 1
    /\ \E k \in RowsOfMachine(tables.MachineLoad[1].Machine) : plan[k].src[alert_col] = "red"

----------------------------------------------------------------------------
(* Properties of the overrides *)

\* the override of a plan row is one the claim calls valid
ValidTargetOverride(r) ==
    /\ target_months_input_col \in columns
    /\ ~r.src[target_months_input_col].nan
    /\ r.src[target_months_input_col].v > 0

ValidSafetyOverride(r) ==
    /\ safety_days_input_col \in columns
    /\ ~r.src[safety_days_input_col].nan
    /\ r.src[safety_days_input_col].v >= 0

FinalsAsClaimed(r) ==
    /\ r.TargetMonthsFinal =
          IF ValidTargetOverride(r) THEN r.src[target_months_input_col].v
          ELSE 100 * cfg.target_months_map[r.DemandClass]
    /\ r.SafetyDaysFinal =
          IF ValidSafetyOverride(r) THEN r.src[safety_days_input_col].v
          ELSE 10 * cfg.safety_days_map[r.DemandClass]

\* C20: build_production_plan gives every row Target Months (Final) = its
\* override when the override column is present and the override is numeric
\* and > 0, else the class default, and Safety Days (Final) = its override
\* when present, numeric and >= 0 (0 is applied), else the class default.
C20_OverridesApplied ==
    runs >= 1 => (Built /\ \A r \in PlanRows : FinalsAsClaimed(r))

----------------------------------------------------------------------------
(* Properties of the class defaults *)

\* the value the configured map m holds for class k, dflt when it holds none
Configured(m, k, dflt) == IF k \in DOMAIN m THEN m[k] ELSE dflt

\* C21: a demand class without entry in the target-months map gets 6 target
\* months, one without entry in the safety-days map 5 safety days, one without
\* entry in the minimum-batch-months map no floor on its plan coverage; a
\* class with an entry uses the configured value (sheets without override
\* columns).
C21_ClassDefaults ==
    Built =>
        \A r \in PlanRows :
            /\ r.TargetMonthsAuto = 100 * Configured(cfg.target_months_map, r.DemandClass, 6)
            /\ r.SafetyDaysAuto = 10 * Configured(cfg.safety_days_map, r.DemandClass, 5)
            /\ r.TargetMonthsFinal = r.TargetMonthsAuto
            /\ r.SafetyDaysFinal = r.SafetyDaysAuto
            /\ r.DemandClass \notin DOMAIN cfg.min_batch_months_map
                  => r.PlanCoverageDays = r.TargetCoverageDays + r.SafetyDaysFinal
            /\ r.DemandClass \in DOMAIN cfg.min_batch_months_map
                  => r.PlanCoverageDays =
                        Max(r.TargetCoverageDays + r.SafetyDaysFinal,
                            10 * cfg.min_batch_months_map[r.DemandClass] * WORKING_DAYS)

\* a VERY_LOW row under maps that configure only other classes: 6 months, 5
\* days, 161.0 plan coverage days, next to a VERY_HIGH row on its configured
\* 3 months and 14 days
C21_Witness ==
    /\ Built
    /\ "VERY_LOW" \notin DOMAIN cfg.target_months_map
    /\ "VERY_LOW" \notin DOMAIN cfg.safety_days_map
    /\ "VERY_LOW" \notin DOMAIN cfg.min_batch_months_map
    /\ \E r \in PlanRows :
          /\ r.DemandClass = "VERY_LOW"
          /\ r.TargetMonthsFinal = 600 /\ r.SafetyDaysFinal = 50
          /\ r.PlanCoverageDays = 1610
    /\ \E r \in PlanRows :
          /\ r.DemandClass = "VERY_HIGH"
          /\ r.TargetMonthsFinal = 300 /\ r.SafetyDaysFinal = 140

----------------------------------------------------------------------------
(* Properties of the machine tokens *)

\* the hyphen-separated pieces of a machine cell as written (one piece "nan"
\* for an absent cell)
RawTokens(cell) == Split(AsStr(cell), <<>>)

\* the machine spec as a whole is blank, absent or the text "nan"
BlankSpec(cell) ==
    cell.nan \/ Strip(cell.s) = <<>> \/ cell.s = <<"n", "a", "n">>

\* the Machine the statement gives to a piece of a machine cell
StatedMachine(cell, tok) ==
    IF BlankSpec(cell) \/ Strip(tok) = <<>> THEN UNSPECIFIED ELSE Strip(tok)

\* the same, a trimmed piece that reads "nan" or "None" counting as blank
AmendedMachine(cell, tok) ==
    IF Strip(tok) \in {<<>>, <<"n", "a", "n">>, <<"N", "o", "n", "e">>}
    THEN UNSPECIFIED ELSE Strip(tok)

\* the plan rows of item i on machine m are as many as the pieces of its
\* machine cell to which the statement gives the Machine m
RowsMatchStated(i, m) ==
    LET toks == RawTokens(master[i][machine_col])
    IN  Cardinality({p \in RowsOfItem(i) : plan[p].Machine = m})
            = Cardinality({j \in 1..Len(toks) :
                              StatedMachine(master[i][machine_col], toks[j]) = m})

RowsMatchAmended(i, m) ==
    LET toks == RawTokens(master[i][machine_col])
    IN  Cardinality({p \in RowsOfItem(i) : plan[p].Machine = m})
            = Cardinality({j \in 1..Len(toks) :
                              AmendedMachine(master[i][machine_col], toks[j]) = m})

MachineNames(i) ==
    {plan[p].Machine : p \in RowsOfItem(i)}
        \cup {Strip(t) : t \in {RawTokens(master[i][machine_col])[j] :
                                   j \in 1..Len(RawTokens(master[i][machine_col]))}}
        \cup {UNSPECIFIED}

\* C22 as stated: the Machine of a plan row is never empty; a blank, absent or
\* "nan" machine spec and every empty or whitespace-only piece give
\* UNSPECIFIED, every other piece is kept, trimmed.
C22_TokensAsStated ==
    Built =>
        /\ \A p \in 1..Len(plan) : plan[p].Machine # <<>>
        /\ \A i \in 1..Len(master) : \A m \in MachineNames(i) : RowsMatchStated(i, m)

\* C22: the Machine of a plan row is never empty; a piece that after trimming
\* is empty, "nan" or "None" (a blank or absent spec gives one such piece)
\* gives UNSPECIFIED, every other piece is kept, trimmed.
C22_TokensCollapse ==
    Built =>
        /\ \A p \in 1..Len(plan) : plan[p].Machine # <<>>
        /\ \A i \in 1..Len(master) : \A m \in MachineNames(i) : RowsMatchAmended(i, m)

\* " A -- B" gives the rows A, UNSPECIFIED and B; "A-nan" gives A and
\* UNSPECIFIED
C22_Witness ==
    /\ Built
    /\ \E i \in 1..Len(master) :
          /\ master[i][machine_col] = Str(<<" ", "A", " ", "-", "-", " ", "B">>)
          /\ {plan[p].Machine : p \in RowsOfItem(i)} = {<<"A">>, UNSPECIFIED, <<"B">>}
          /\ Cardinality(RowsOfItem(i)) = 3
    /\ \E i \in 1..Len(master) :
          /\ master[i][machine_col] = Str(<<"A", "-", "n", "a", "n">>)
          /\ {plan[p].Machine : p \in RowsOfItem(i)} = {<<"A">>, UNSPECIFIED}

----------------------------------------------------------------------------
(* Properties of the alerts of missing coverage *)

\* add_alerts has run on the table
Alerted == alert_col \in columns /\ cust_alert_col \in columns

\* C23: a missing coverage gives an empty Product Alert and a missing customer
\* coverage an empty CUST Alert, a value and not an error (neither RED nor
\* GREEN); in the plan a row with the empty alert ranks after every GREEN row
\* of its machine.
C23_MissingCoverageEmptyAlert ==
    /\ Alerted =>
          \A i \in 1..Len(master) :
              /\ master[i][coverage_days_col].nan => master[i][alert_col] = ""
              /\ master[i][cust_days_col].nan => master[i][cust_alert_col] = ""
              /\ master[i][alert_col] \in {"RED", "GREEN"} => ~master[i][coverage_days_col].nan
    /\ (Alerted /\ runs >= 1) =>
          /\ Built
          /\ \A a, b \in PlanRows :
                (/\ a.Machine = b.Machine
                 /\ a.src[coverage_days_col].nan
                 /\ b.src[alert_col] = "GREEN")
                    => a.ProductionRank > b.ProductionRank

\* a row without coverage, hence with the largest gap, holds rank 2 behind the
\* GREEN row of its machine
C23_Witness ==
    /\ Alerted
    /\ Built
    /\ \E a, b \in PlanRows :
          /\ a.Machine = b.Machine
          /\ a.src[coverage_days_col].nan /\ a.src[alert_col] = ""
          /\ a.src[cust_days_col].nan /\ a.src[cust_alert_col] = ""
          /\ b.src[alert_col] = "GREEN"
          /\ a.GapDays > b.GapDays
          /\ b.ProductionRank = 1 /\ a.ProductionRank = 2

----------------------------------------------------------------------------
(* Properties of the what-if inputs *)

\* the figures of a plan the statement names, row by row in plan order
PlanFigures(p) ==
    [i \in 1..Len(p) |->
        [idx |-> p[i].idx, Machine |-> p[i].Machine,
         DemandClass |-> p[i].DemandClass,
         TargetMonthsFinal |-> p[i].TargetMonthsFinal,
         SafetyDaysFinal |-> p[i].SafetyDaysFinal,
         PlanCoverageDays |-> p[i].PlanCoverageDays,
         GapDays |-> p[i].GapDays,
         ProposedProductionQty |-> p[i].ProposedProductionQty,
         ProductionRank |-> p[i].ProductionRank]]

\* C24: a plan built from a table that differs from the table of the previous
\* build only in Plan Qty Input, Plan Months Input, Months Covered by Plan Qty
\* and Qty Needed for Plan Months has the same Demand Class, Target Months
\* (Final), Safety Days (Final), Plan Coverage Days, Gap Days, Proposed
\* Production Qty and Production Rank on every row.
C24_WhatIfNoFeedback ==
    [][(runs >= 1 /\ runs' = runs + 1) =>
          (status' = status /\ PlanFigures(plan') = PlanFigures(plan))]_vars

\* the second build ran on a table whose what-if cells were filled in after the
\* first build (the uploaded sheets leave them blank)
C24_Witness ==
    /\ Built
    /\ runs = 2
    /\ \E r \in PlanRows :
          /\ r.src[plan_qty_input_col] = Num(1300)
          /\ r.src[plan_months_input_col] = Num(200)
          /\ r.src[months_covered_col] = Num(5)
          /\ r.src[qty_needed_col] = Num(5200)
          /\ r.ProposedProductionQty > 0

----------------------------------------------------------------------------
(* Properties of the fill report *)

\* the sheet rows whose item number has a significant digit
KeyedRows == {r \in 1..Len(sheet) : NormalizedNo(sheet[r].ItemNo) # <<>>}

\* the keyed sheet rows no decision row has the item number of
UnmatchedRows == {r \in KeyedRows : ~\E p \in 1..Len(final) : SameItem(r, p)}

\* the k-th unmatched sheet row, counted from the top
KthUnmatched(k) ==
    CHOOSE r \in UnmatchedRows : Cardinality({q \in UnmatchedRows : q <= r}) = k

\* C25: filled + not_matched is the number of sheet rows with a non-empty
\* key; the unmatched list has not_matched entries, the keys of the unmatched
\* rows in row order; a row without key is counted in neither, and its Qty
\* cell, like that of every unmatched row, is left as it was.
C25_CountsAccountForKeyedRows ==
    Filled =>
        /\ filled.filled + filled.not_matched = Cardinality(KeyedRows)
        /\ filled.not_matched = Cardinality(UnmatchedRows)
        /\ Len(filled.unmatched) = filled.not_matched
        /\ \A k \in 1..Len(filled.unmatched) :
              filled.unmatched[k] = NormalizedNo(sheet[KthUnmatched(k)].ItemNo)
        /\ \A r \in 1..Len(sheet) :
              (r \notin KeyedRows \/ r \in UnmatchedRows) => filled.rows[r] = sheet[r]

\* sheet rows "125" and "0", both with 7 in the Qty cell, decision row "0":
\* nothing is filled, one row is unmatched, both cells still hold 7
C25_Witness ==
    /\ Filled
    /\ Len(sheet) = 2
    /\ sheet[1] = [ItemNo |-> Str(<<"1", "2", "5">>), Qty |-> Num(7)]
    /\ sheet[2] = [ItemNo |-> Str(<<"0">>), Qty |-> Num(7)]
    /\ \E p \in 1..Len(final) : final[p].ItemNo = Str(<<"0">>)
    /\ filled.filled = 0
    /\ filled.not_matched = 1
    /\ filled.unmatched = <<(<<"1", "2", "5">>)>>
    /\ filled.rows = sheet

----------------------------------------------------------------------------
(* Properties of the Top 10 Critical table *)

\* the master rows whose alert, in upper case, is RED or ORANGE
CriticalItems ==
    {i \in 1..Len(master) : UpperAlert(master[i][alert_col]) \in {"RED", "ORANGE"}}

\* the master rows the table lists, by item number
ListedItems ==
    {i \in 1..Len(master) :
        \E t \in 1..Len(tables.Top10Critical) :
            tables.Top10Critical[t].ItemNo = master[i][itemno_col]}

\* the gap of item i in the plan (the rows of an item share it)
GapOfItem(i) == plan[CHOOSE p \in 1..Len(plan) : plan[p].idx = i].GapDays

CriticalOrder(alert) == IF alert = "RED" THEN 0 ELSE 1

\* item i is more urgent than item j: RED against ORANGE, or the same alert
\* and the larger gap
MoreUrgent(i, j) ==
    LET ri == CriticalOrder(UpperAlert(master[i][alert_col]))
        rj == CriticalOrder(UpperAlert(master[j][alert_col]))
    IN  ri < rj \/ (ri = rj /\ GapOfItem(i) > GapOfItem(j))

\* C26: the Top 10 Critical table holds only RED and ORANGE rows, at most 10,
\* every RED row before every ORANGE row and within one alert the larger Gap
\* Days first; with more than 10 critical rows it holds 10 of them and no
\* omitted row is more urgent than a listed one.
C26_Top10Critical ==
    Reported =>
        LET top == tables.Top10Critical
        IN  /\ Len(top) <= 10
            /\ Len(top) = IF Cardinality(CriticalItems) < 10
                          THEN Cardinality(CriticalItems) ELSE 10
            /\ \A t \in 1..Len(top) :
                  /\ top[t].ProductAlert \in {"RED", "ORANGE"}
                  /\ \E i \in CriticalItems :
                        /\ master[i][itemno_col] = top[t].ItemNo
                        /\ UpperAlert(master[i][alert_col]) = top[t].ProductAlert
                        /\ top[t].GapDays = Num(GapOfItem(i))
            /\ \A s, t \in 1..Len(top) :
                  s < t =>
                      /\ top[s].ItemNo # top[t].ItemNo
                      /\ CriticalOrder(top[s].ProductAlert) <= CriticalOrder(top[t].ProductAlert)
                      /\ top[s].ProductAlert = top[t].ProductAlert
                            => top[s].GapDays.v >= top[t].GapDays.v
            /\ \A o \in CriticalItems \ ListedItems :
                  \A l \in ListedItems : ~MoreUrgent(o, l)

\* eleven critical items: ten are listed, RED and ORANGE among them, and the
\* one left out is an ORANGE row
C26_Witness ==
    /\ Reported
    /\ Cardinality(CriticalItems) = 11
    /\ Len(tables.Top10Critical) = 10
    /\ tables.Top10Critical[1].ProductAlert = "RED"
    /\ tables.Top10Critical[10].ProductAlert = "ORANGE"
    /\ \E s \in 1..9 :
          /\ tables.Top10Critical[s].ProductAlert = tables.Top10Critical[s + 1].ProductAlert
          /\ tables.Top10Critical[s].GapDays.v > tables.Top10Critical[s + 1].GapDays.v
    /\ \E o \in CriticalItems \ ListedItems : master[o][alert_col] = "ORANGE"

----------------------------------------------------------------------------
(* Properties of the slow movers *)

\* C27: through compute_metrics_qty_based and build_production_plan an item
\* with 0 < 2 * monthly demand < working days has Daily Demand 0; a row with
\* Daily Demand 0 has Proposed Production Qty 0 whatever its gap, its alert and
\* the batch size; a row has a positive quantity only if its Gap Days and its
\* Daily Demand are both positive.
C27_SlowMoverGetsNothing ==
    (Built /\ PipelineDone) =>
        \A r \in PlanRows :
            /\ (MonthlyOf(r) > 0 /\ 2 * MonthlyOf(r) < WORKING_DAYS)
                  => (r.src[daily_col] = Num(0) /\ r.ProposedProductionQty = 0)
            /\ DailyOf(r) = 0 => r.ProposedProductionQty = 0
            /\ r.ProposedProductionQty > 0 => (r.GapDays > 0 /\ DailyOf(r) > 0)

\* a RED item of monthly demand 12 with a gap of more than 300 days gets 0
\* under a batch size of 1000, next to an item of demand 14 that gets a batch
C27_Witness ==
    /\ Built
    /\ PipelineDone
    /\ cfg.batch_round_to = 1000
    /\ \E r \in PlanRows :
          /\ MonthlyOf(r) = 12 /\ DailyOf(r) = 0
          /\ r.src[alert_col] = "RED" /\ r.GapDays > 3000
          /\ r.ProposedProductionQty = 0
    /\ \E r \in PlanRows :
          /\ MonthlyOf(r) = 14 /\ DailyOf(r) = 1
          /\ r.ProposedProductionQty = 1000

----------------------------------------------------------------------------
(* Properties of decision rows that share an item number *)

\* the decision rows with the item number of sheet row r
DecisionRowsOf(r) == {p \in 1..Len(final) : SameItem(r, p)}

\* the last of them in table order
LastDecisionRow(r) == CHOOSE p \in DecisionRowsOf(r) : \A q \in DecisionRowsOf(r) : q <= p

\* C28: when several decision rows have the key of a sheet row, the sheet row
\* gets the quantity of the last of them in table order; the quantities of the
\* earlier ones are dropped, not added.
C28_LastRowWins ==
    Filled =>
        \A r \in 1..Len(sheet) :
            (NormalizedNo(sheet[r].ItemNo) # <<>> /\ DecisionRowsOf(r) # {}) =>
                filled.rows[r].Qty = Num(ToNumericFill0(final[LastDecisionRow(r)].FinalQty))

\* decision rows "00123" with 300 and "123" with 500: the sheet row "123" gets
\* 500, neither 300 nor 800
C28_Witness ==
    /\ Filled
    /\ final = <<[ItemNo |-> Str(<<"0", "0", "1", "2", "3">>), FinalQty |-> Num(300)],
                 [ItemNo |-> Str(<<"1", "2", "3">>), FinalQty |-> Num(500)]>>
    /\ \E r \in 1..Len(sheet) :
          /\ sheet[r].ItemNo = Str(<<"1", "2", "3">>)
          /\ filled.rows[r].Qty = Num(500)
    /\ filled.filled >= 1

----------------------------------------------------------------------------
(* Properties of the classifier on whole demand columns *)

ClassOrder ==
    [VERY_LOW |-> 0, LOW |-> 1, MEDIUM |-> 2, HIGH |-> 3, VERY_HIGH |-> 4]

\* C29: when some demand is strictly positive, every row of the largest demand
\* is VERY_HIGH, every row whose demand is 0, negative or not a number is
\* VERY_LOW, a row of larger demand never has a lower class than a row of
\* smaller demand, and when all positive demands are equal every row of
\* positive demand is VERY_HIGH.
C29_ClassMonotone ==
    (Built /\ PositiveRows # {}) =>
        /\ \A i \in PlanIndex :
              (\A j \in PlanIndex : MonthlyOf(plan[j]) <= MonthlyOf(plan[i]))
                  => plan[i].DemandClass = "VERY_HIGH"
        /\ \A i \in PlanIndex \ PositiveRows : plan[i].DemandClass = "VERY_LOW"
        /\ \A i, j \in PlanIndex :
              MonthlyOf(plan[i]) <= MonthlyOf(plan[j])
                  => ClassOrder[plan[i].DemandClass] <= ClassOrder[plan[j].DemandClass]
        /\ (\A i, j \in PositiveRows : MonthlyOf(plan[i]) = MonthlyOf(plan[j]))
              => \A i \in PositiveRows : plan[i].DemandClass = "VERY_HIGH"

\* a column of at least six rows with a negative, a zero and a missing demand
\* whose positive demands are all 1300: these rows are VERY_HIGH, the others
\* VERY_LOW
C29_Witness ==
    /\ Built
    /\ Len(plan) >= 6
    /\ Cardinality(PositiveRows) >= 3
    /\ \A i \in PositiveRows : MonthlyOf(plan[i]) = 1300 /\ plan[i].DemandClass = "VERY_HIGH"
    /\ \E i \in PlanIndex : plan[i].src[demand_col] = Num(-5) /\ plan[i].DemandClass = "VERY_LOW"
    /\ \E i \in PlanIndex : plan[i].src[demand_col] = Num(0) /\ plan[i].DemandClass = "VERY_LOW"
    /\ \E i \in PlanIndex : plan[i].src[demand_col].nan /\ plan[i].DemandClass = "VERY_LOW"

====
